---- MODULE Spec2Model ----
(***************************************************************************)
(* A model of the sales-analytics repository: the canonical field mapper   *)
(* (inferCanonical), the chat question router (routeChatQuestion), the     *)
(* cleaned view (materializeCleanedView) and the aggregates computed over  *)
(* it (getSummary, getAnomalies).                                          *)
(*                                                                         *)
(* Conventions.                                                            *)
(*   - A JavaScript string or a CSV cell's text is a sequence of           *)
(*     one-character strings, <<"i","d">> for "id".                        *)
(*   - SQL NULL and a JavaScript undefined/null are the empty sequence     *)
(*     <<>>; a present value v is the one-element sequence <<v>>.  A raw   *)
(*     CSV cell is its text, and the empty text is the NULL cell           *)
(*     (read_csv_auto reads an empty field as NULL).                       *)
(*   - A DOUBLE is modelled by an integer (the inputs are integral and     *)
(*     small, so every sum and product is exact); a quotient is kept as    *)
(*     the pair [num, den].                                                *)
(*   - A TIMESTAMP is the number of seconds since 1970-01-01 00:00:00; the *)
(*     driver hands it to JavaScript as 1000 times that number, which is   *)
(*     zero exactly when the model's number is zero.                       *)
(***************************************************************************)
EXTENDS Integers, Sequences, FiniteSets, TLC

VARIABLES
    colName,      \* inferCanonical: the raw column name last classified
    inference,    \* inferCanonical: the two Mapping records returned for it
    question,     \* routeChatQuestion: the question last routed
    chat,         \* routeChatQuestion: the template selected for it
    data,         \* the raw table "data": a sequence of rows, column name -> cell text
    columnMap,    \* the ColumnMap the caller passes to materializeCleanedView
    today,        \* CURRENT_DATE of the database, in days since 1970-01-01
    cleanedView,  \* the definition of the view "cleaned": Null, or the ColumnMap it was built from
    materializations, \* how many times materializeCleanedView has been called
    summary,      \* what getSummary last returned
    growth,       \* the row getSummary's growth query returned in that call, Null if not issued
    anomalies,    \* what getAnomalies last returned
    schemaColumns,\* schema.columns, the ColumnInference list given to buildColumnMap
    builtMap,     \* what buildColumnMap last returned
    productsArgs, \* the arguments [limit, offset, order] of the getProducts call
    timeseries,   \* what getTimeseries last returned
    products,     \* what getProducts last returned
    chatTable,    \* the table routeChatQuestion last returned, Null for a template without one
    ui,           \* the React state of the upload component
    storage,      \* localStorage: the cache entries, the history list, the last-session pointer
    duck,         \* the database: which file the table "data" holds, which schema the view
                  \* "cleaned" was built from, the statements in flight on the connection
    tasks,        \* the invocations of handleFile, runAggregates and runChat and the last UI event
    now,          \* the clock read by new Date()
    post          \* the upload API route: its requests, their connections and responses

mapperVars == <<colName, inference>>

routerVars == <<question, chat>>

inputVars == <<data, columnMap, today, schemaColumns, productsArgs>>

resultVars == <<summary, growth, anomalies, builtMap, timeseries, products, chatTable>>

componentVars == <<ui, storage, duck, tasks, now>>

viewVars == <<cleanedView, materializations>>

routeVars == <<post>>

vars == <<colName, inference, question, chat, data, columnMap, today,
          cleanedView, materializations, summary, growth, anomalies, schemaColumns, builtMap,
          productsArgs, timeseries, products, chatTable, ui, storage, duck, tasks, now, post>>

\* ------------------------------------------------------------------ bounds

\* The longest raw column name, in tokens of NameTokens.
MaxNameTokens == 2

\* The longest question, in tokens of QuestionTokens.
MaxQuestionTokens == 2

\* The most rows of a raw table of the cleaned-view specification.
MaxCleanedRows == 2

\* The most rows of a raw table of the summary specification.
MaxSummaryRows == 2

\* The most days of revenue 1, and of revenue 10, of a raw table of the
\* anomalies specification.
MaxAnomalyDays == 10

MaxOutlierDays == 2

\* The most columns of a schema of the column-map specification.
MaxSchemaColumns == 3

\* The most rows of a raw table of the time-series specification.
MaxTimeseriesRows == 3

\* The most rows of a small raw table, and the most products of a table of
\* many products, of the products specification.
MaxProductRows == 3

MaxManyProducts == 12

\* The most days of a raw table of the chat specification.
MaxChatDays == 6

MaxEvents == 4

MaxMaterializations == 2

MaxGroupRows == 2

MaxRebuildRows == 2

\* The most requests the upload API route serves.
MaxRequests == 2

MAX_COLUMNS == 200

\* ------------------------------------------------------------ absent values

Null == <<>>

Some(v) == <<v>>

IsNull(x) == x = <<>>

\* ------------------------------------------------------------------ strings

UpperCaseLetters ==
    <<"A","B","C","D","E","F","G","H","I","J","K","L","M",
      "N","O","P","Q","R","S","T","U","V","W","X","Y","Z">>

LowerCaseLetters ==
    <<"a","b","c","d","e","f","g","h","i","j","k","l","m",
      "n","o","p","q","r","s","t","u","v","w","x","y","z">>

Digits == <<"0","1","2","3","4","5","6","7","8","9">>

Range(s) == {s[i] : i \in DOMAIN s}

WhiteSpace == {" ", "\t", "\n", "\r"}

\* String.prototype.toLowerCase, one character.
LowerChar(c) ==
    IF c \in Range(UpperCaseLetters)
    THEN LowerCaseLetters[CHOOSE i \in DOMAIN UpperCaseLetters : UpperCaseLetters[i] = c]
    ELSE c

\* String.prototype.toLowerCase.
ToLowerCase(s) == [i \in DOMAIN s |-> LowerChar(s[i])]

\* String.prototype.trim: the text without its leading and trailing white space.
Trim(s) ==
    LET keep == {i \in DOMAIN s : s[i] \notin WhiteSpace}
    IN  IF keep = {} THEN <<>>
        ELSE LET lo == CHOOSE i \in keep : \A j \in keep : i <= j
                 hi == CHOOSE i \in keep : \A j \in keep : j <= i
             IN  SubSeq(s, lo, hi)

\* String.prototype.includes, and an unanchored regular expression that is a
\* literal: p occurs somewhere in s.
Includes(s, p) ==
    \E i \in 1..(Len(s) - Len(p) + 1) : SubSeq(s, i, i + Len(p) - 1) = p

\* A regular expression's \w.
IsWordChar(c) ==
    c \in Range(LowerCaseLetters) \cup Range(UpperCaseLetters) \cup Range(Digits) \cup {"_"}

\* The regular expression \bp\b for a literal p of word characters: p occurs
\* in s with no word character right before it and none right after it.
IncludesWord(s, p) ==
    \E i \in 1..(Len(s) - Len(p) + 1) :
        /\ SubSeq(s, i, i + Len(p) - 1) = p
        /\ (i = 1 \/ ~IsWordChar(s[i - 1]))
        /\ (i + Len(p) - 1 = Len(s) \/ ~IsWordChar(s[i + Len(p)]))

\* The texts made of at most n tokens of the set tokens, concatenated.
RECURSIVE Texts(_, _)
Texts(tokens, n) ==
    IF n = 0 THEN {<<>>}
    ELSE LET shorter == Texts(tokens, n - 1)
         IN  shorter \cup {t \o s : t \in tokens, s \in shorter}

\* ------------------------------------------------- canonical field mapper

CANONICAL_FIELDS ==
    <<"order_id", "product", "timestamp", "quantity", "price", "revenue",
      "channel", "city", "state", "zip", "source_file", "original_column">>

\* The fields inferCanonical has a rule for, in the order of its if statements.
RuleOrder ==
    <<"order_id", "product", "timestamp", "quantity", "price", "revenue",
      "channel", "city", "state", "zip">>

\* The condition of the if statement that assigns field, on the lowercased,
\* trimmed name.
RuleMatches(field, lower) ==
    CASE field = "order_id" ->
            \/ Includes(lower, <<"o","r","d","e","r">>)
            \/ Includes(lower, <<"i","d">>)
            \/ lower = <<"i","d">>
      [] field = "product" ->
            \/ Includes(lower, <<"p","r","o","d","u","c","t">>)
            \/ Includes(lower, <<"i","t","e","m">>)
            \/ Includes(lower, <<"s","k","u">>)
      [] field = "timestamp" ->
            \/ Includes(lower, <<"d","a","t","e">>)
            \/ Includes(lower, <<"t","i","m","e">>)
      [] field = "quantity" ->
            \/ Includes(lower, <<"q","t","y">>)
            \/ Includes(lower, <<"q","u","a","n","t","i","t","y">>)
            \/ Includes(lower, <<"u","n","i","t">>)
      [] field = "price" ->
            \/ Includes(lower, <<"p","r","i","c","e">>)
            \/ Includes(lower, <<"a","m","o","u","n","t">>)
            \/ Includes(lower, <<"c","o","s","t">>)
      [] field = "revenue" ->
            \/ Includes(lower, <<"r","e","v","e","n","u","e">>)
            \/ Includes(lower, <<"s","a","l","e","s">>)
            \/ Includes(lower, <<"t","o","t","a","l">>)
      [] field = "channel" ->
            \/ Includes(lower, <<"c","h","a","n","n","e","l">>)
            \/ Includes(lower, <<"m","a","r","k","e","t">>)
            \/ Includes(lower, <<"s","o","u","r","c","e">>)
      [] field = "city" ->
            Includes(lower, <<"c","i","t","y">>)
      [] field = "state" ->
            \/ IncludesWord(lower, <<"s","t","a","t","e">>)
            \/ Includes(lower, <<"p","r","o","v","i","n","c","e">>)
      [] field = "zip" ->
            \/ IncludesWord(lower, <<"z","i","p">>)
            \/ Includes(lower, <<"p","o","s","t","a","l">>)

\* One if statement of inferCanonical: "if (!canonical && <rule>) canonical =
\* field; confidence += 0.4", on the pair of locals [canonical, confidence]
\* (confidence in hundredths).
ApplyRule(acc, field, lower) ==
    IF IsNull(acc.canonical) /\ RuleMatches(field, lower)
    THEN [canonical |-> Some(field), confidence |-> acc.confidence + 40]
    ELSE acc

\* The if statements of inferCanonical from the i-th on, in source order.
RECURSIVE ApplyRulesFrom(_, _, _)
ApplyRulesFrom(acc, i, lower) ==
    IF i > Len(RuleOrder) THEN acc
    ELSE ApplyRulesFrom(ApplyRule(acc, RuleOrder[i], lower), i + 1, lower)

Min2(a, b) == IF a <= b THEN a ELSE b

\* A variant of inferCanonical in which a later rule overwrites an earlier
\* one (the "!canonical &&" guards dropped).
RECURSIVE LastRuleFrom(_, _, _)
LastRuleFrom(acc, i, lower) ==
    IF i > Len(RuleOrder) THEN acc
    ELSE LastRuleFrom(
            IF RuleMatches(RuleOrder[i], lower)
            THEN [canonical |-> Some(RuleOrder[i]), confidence |-> 40]
            ELSE acc,
            i + 1, lower)

inferCanonicalLastMatch(name) ==
    LET lower == Trim(ToLowerCase(name))
        acc == LastRuleFrom([canonical |-> Null, confidence |-> 0], 1, lower)
    IN  [originalName |-> name,
         canonicalName |-> acc.canonical,
         confidence |-> IF IsNull(acc.canonical) THEN 0 ELSE Min2(100, 50 + acc.confidence)]

\* inferCanonical of the upload component.  confidence is in hundredths; the
\* reason text, which no caller reads back, is left out.
inferCanonical(name) ==
    LET lower == Trim(ToLowerCase(name))
        acc == ApplyRulesFrom([canonical |-> Null, confidence |-> 0], 1, lower)
    IN  [originalName |-> name,
         canonicalName |-> acc.canonical,
         confidence |-> IF IsNull(acc.canonical) THEN 0 ELSE Min2(100, 50 + acc.confidence)]

\* inferCanonical of the upload API route: the same statements.
inferCanonicalRoute(name) ==
    LET lower == Trim(ToLowerCase(name))
        acc == ApplyRulesFrom([canonical |-> Null, confidence |-> 0], 1, lower)
    IN  [originalName |-> name,
         canonicalName |-> acc.canonical,
         confidence |-> IF IsNull(acc.canonical) THEN 0 ELSE Min2(100, 50 + acc.confidence)]

\* The pieces raw column names are made of: the words the rules look for,
\* separators that are or are not word characters, capitals, white space.
NameTokens ==
    { <<"o","r","d","e","r">>, <<"I","D">>, <<"D","a","t","e">>,
      <<"p","r","o","d","u","c","t">>, <<"q","t","y">>, <<"p","r","i","c","e">>,
      <<"t","o","t","a","l">>, <<"c","h","a","n","n","e","l">>,
      <<"c","i","t","y">>, <<"s","t","a","t","e">>, <<"z","i","p">>,
      <<"p","o","s","t","a","l">>, <<"_">>, <<" ">>, <<"x">>, <<"n","o","t","e">> }

\* The name of the specification's precedence example, "order_date".
OrderDateName == <<"o","r","d","e","r","_","d","a","t","e">>

ColumnNames == (Texts(NameTokens, MaxNameTokens) \ {<<>>}) \cup {OrderDateName}

\* ------------------------------------------------------ chat query router

\* A variant of ChatTemplate that tests the "channel" rule before the
\* ("top" and "product") rule.
ChatTemplateChannelFirst(text) ==
    IF Includes(text, <<"c","h","a","n","n","e","l">>) THEN "channels"
    ELSE IF Includes(text, <<"t","o","p">>) /\ Includes(text, <<"p","r","o","d","u","c","t">>) THEN "top_products"
    ELSE IF \/ Includes(text, <<"s","t","a","t","e">>)
            \/ Includes(text, <<"c","i","t","y">>)
            \/ Includes(text, <<"g","e","o">>) THEN "geo"
    ELSE IF \/ Includes(text, <<"a","n","o","m","a","l","y">>)
            \/ Includes(text, <<"o","u","t","l","i","e","r">>) THEN "anomalies"
    ELSE IF \/ Includes(text, <<"m","o","m">>)
            \/ Includes(text, <<"m","o","n","t","h">>)
            \/ Includes(text, <<"g","r","o","w","t","h">>) THEN "mom_growth"
    ELSE IF \/ Includes(text, <<"y","o","y">>)
            \/ Includes(text, <<"y","e","a","r">>) THEN "yoy_growth"
    ELSE "summary"

\* The cascade of if statements of routeChatQuestion on text, the lowercased
\* question: the template of the first one whose condition holds.
ChatTemplate(text) ==
    IF Includes(text, <<"t","o","p">>) /\ Includes(text, <<"p","r","o","d","u","c","t">>) THEN "top_products"
    ELSE IF Includes(text, <<"c","h","a","n","n","e","l">>) THEN "channels"
    ELSE IF \/ Includes(text, <<"s","t","a","t","e">>)
            \/ Includes(text, <<"c","i","t","y">>)
            \/ Includes(text, <<"g","e","o">>) THEN "geo"
    ELSE IF \/ Includes(text, <<"a","n","o","m","a","l","y">>)
            \/ Includes(text, <<"o","u","t","l","i","e","r">>) THEN "anomalies"
    ELSE IF \/ Includes(text, <<"m","o","m">>)
            \/ Includes(text, <<"m","o","n","t","h">>)
            \/ Includes(text, <<"g","r","o","w","t","h">>) THEN "mom_growth"
    ELSE IF \/ Includes(text, <<"y","o","y">>)
            \/ Includes(text, <<"y","e","a","r">>) THEN "yoy_growth"
    ELSE "summary"

\* The pieces questions are made of: the words the router looks for, in
\* lower case and capitalised, a space, and words it does not look for.
QuestionTokens ==
    { <<"t","o","p">>, <<"T","o","p">>, <<"p","r","o","d","u","c","t">>, <<"c","h","a","n","n","e","l">>,
      <<"s","t","a","t","e">>, <<"c","i","t","y">>, <<"g","e","o">>, <<"a","n","o","m","a","l","y">>,
      <<"o","u","t","l","i","e","r">>, <<"m","o","m">>, <<"M","o","n","t","h">>, <<"g","r","o","w","t","h">>,
      <<"y","o","y">>, <<"y","e","a","r">>, <<" ">>, <<"s","a","l","e","s">> }

\* The question of the specification's precedence example.
TopProductsByChannel ==
    <<"w","h","a","t"," ","a","r","e"," ","m","y"," ","t","o","p"," ","p","r","o","d","u","c","t","s"," ","b","y"," ","c","h","a","n","n","e","l">>

Questions == Texts(QuestionTokens, MaxQuestionTokens) \cup {TopProductsByChannel}

\* ---------------------------------------------------------------- calendar

\* The number of days from 1970-01-01 to the day d of month m of year y of
\* the proleptic Gregorian calendar (y >= 1).
DaysFromCivil(y, m, d) ==
    LET yy == IF m <= 2 THEN y - 1 ELSE y
        era == yy \div 400
        yoe == yy - era * 400
        mp == IF m > 2 THEN m - 3 ELSE m + 9
        doy == (153 * mp + 2) \div 5 + d - 1
        doe == yoe * 365 + yoe \div 4 - yoe \div 100 + doy
    IN  era * 146097 + doe - 719468

\* The year and month of the day that is days days after 1970-01-01.
CivilFromDays(days) ==
    LET z == days + 719468
        era == z \div 146097
        doe == z - era * 146097
        yoe == (doe - doe \div 1460 + doe \div 36524 - doe \div 146096) \div 365
        doy == doe - (365 * yoe + yoe \div 4 - yoe \div 100)
        mp == (5 * doy + 2) \div 153
        m == IF mp < 10 THEN mp + 3 ELSE mp - 9
        y == yoe + era * 400 + (IF m <= 2 THEN 1 ELSE 0)
    IN  [year |-> y, month |-> m, day |-> doy - (153 * mp + 2) \div 5 + 1]

DaysInMonth(y, m) ==
    IF m = 12 THEN 31 ELSE DaysFromCivil(y, m + 1, 1) - DaysFromCivil(y, m, 1)

SecondsPerDay == 24 * 60 * 60

\* DATE_TRUNC('day', ts), DATE_TRUNC('month', ts) and DATE_TRUNC('year', ts) of
\* a timestamp, and the timestamp of the midnight that starts a date.
DayOf(ts) == ts \div SecondsPerDay

TruncDay(ts) == DayOf(ts) * SecondsPerDay

MonthStartDay(day) ==
    LET c == CivilFromDays(day) IN DaysFromCivil(c.year, c.month, 1)

YearStartDay(day) ==
    LET c == CivilFromDays(day) IN DaysFromCivil(c.year, 1, 1)

\* "<first day of a month> - INTERVAL 1 MONTH" and "<first day of a year> -
\* INTERVAL 1 YEAR".
MinusOneMonth(day) ==
    LET c == CivilFromDays(day)
    IN  IF c.month = 1 THEN DaysFromCivil(c.year - 1, 12, c.day)
        ELSE DaysFromCivil(c.year, c.month - 1, Min2(c.day, DaysInMonth(c.year, c.month - 1)))

MinusOneYear(day) ==
    LET c == CivilFromDays(day)
    IN  DaysFromCivil(c.year - 1, c.month, Min2(c.day, DaysInMonth(c.year - 1, c.month)))

\* ------------------------------------------------------------------- casts

IsDigit(c) == c \in Range(Digits)

DigitValue(c) == (CHOOSE i \in DOMAIN Digits : Digits[i] = c) - 1

\* The number a non-empty text of digits writes.
RECURSIVE DigitsValue(_)
DigitsValue(s) ==
    IF Len(s) = 0 THEN 0
    ELSE 10 * DigitsValue(SubSeq(s, 1, Len(s) - 1)) + DigitValue(s[Len(s)])

AllDigits(s) == Len(s) > 0 /\ \A i \in DOMAIN s : IsDigit(s[i])

\* TRY_CAST(cell AS DOUBLE) on a cell's text: the number an optionally signed
\* integer literal writes, NULL for a NULL cell and for any other text (the
\* inputs of this model hold no fractions and no exponents).
TryCastDouble(cell) ==
    IF cell = Null THEN Null
    ELSE IF AllDigits(cell) THEN Some(DigitsValue(cell))
    ELSE IF cell[1] = "-" /\ AllDigits(Tail(cell)) THEN Some(0 - DigitsValue(Tail(cell)))
    ELSE Null

\* The date part of a timestamp literal, "YYYY-MM-DD": its day number, NULL
\* when it is not a date of the calendar.
TryCastDate(s) ==
    IF /\ Len(s) = 10
       /\ s[5] = "-" /\ s[8] = "-"
       /\ AllDigits(SubSeq(s, 1, 4)) /\ AllDigits(SubSeq(s, 6, 7)) /\ AllDigits(SubSeq(s, 9, 10))
    THEN LET y == DigitsValue(SubSeq(s, 1, 4))
             m == DigitsValue(SubSeq(s, 6, 7))
             d == DigitsValue(SubSeq(s, 9, 10))
         IN  IF y >= 1 /\ m \in 1..12 /\ d >= 1 /\ d <= DaysInMonth(y, m)
             THEN Some(DaysFromCivil(y, m, d))
             ELSE Null
    ELSE Null

\* The time part of a timestamp literal, "HH:MM:SS": its second of the day.
TryCastTime(s) ==
    IF /\ Len(s) = 8
       /\ s[3] = ":" /\ s[6] = ":"
       /\ AllDigits(SubSeq(s, 1, 2)) /\ AllDigits(SubSeq(s, 4, 5)) /\ AllDigits(SubSeq(s, 7, 8))
    THEN LET h == DigitsValue(SubSeq(s, 1, 2))
             mi == DigitsValue(SubSeq(s, 4, 5))
             se == DigitsValue(SubSeq(s, 7, 8))
         IN  IF h <= 23 /\ mi <= 59 /\ se <= 59 THEN Some(h * 3600 + mi * 60 + se) ELSE Null
    ELSE Null

\* TRY_CAST(cell AS TIMESTAMP) on a cell's text, "YYYY-MM-DD" or
\* "YYYY-MM-DD HH:MM:SS": seconds since 1970-01-01 00:00:00, NULL for a NULL
\* cell and for a text that is no timestamp.
TryCastTimestamp(cell) ==
    IF Len(cell) = 10
    THEN LET d == TryCastDate(cell)
         IN  IF d = Null THEN Null ELSE Some(d[1] * SecondsPerDay)
    ELSE IF Len(cell) = 19 /\ cell[11] = " "
    THEN LET d == TryCastDate(SubSeq(cell, 1, 10))
             t == TryCastTime(SubSeq(cell, 12, 19))
         IN  IF d = Null \/ t = Null THEN Null ELSE Some(d[1] * SecondsPerDay + t[1])
    ELSE Null

\* ------------------------------------------------------------ cleaned view

\* mapping.key of a ColumnMap, a JavaScript object: undefined when the object
\* has no such key.
Lookup(mapping, key) ==
    IF key \in DOMAIN mapping THEN Some(mapping[key]) ELSE Null

\* The truthiness of a string-or-undefined value: a non-empty string.
TruthyText(v) == v # Null /\ Len(v[1]) > 0

\* a ?? b.
Coalesce(a, b) == IF a = Null THEN b ELSE a

\* The column reference qi(col) evaluated on a row of data: the cell as it is.
\* A cell's text is passed through; the NULL cell stays NULL.
RawCell(row, col) == IF row[col] = Null THEN Null ELSE Some(row[col])

\* The numeric column TRY_CAST(qi(col) AS DOUBLE), or NULL when col is falsy.
DoubleColumn(row, col) ==
    IF TruthyText(col) THEN TryCastDouble(row[col[1]]) ELSE Null

\* The text column qi(col), or NULL when col is falsy.
TextColumn(row, col) ==
    IF TruthyText(col) THEN RawCell(row, col[1]) ELSE Null

\* SQL multiplication: NULL when either operand is.
SqlTimes(a, b) == IF a = Null \/ b = Null THEN Null ELSE Some(a[1] * b[1])

\* dateCol of materializeCleanedView:
\* mapping.timestamp ?? mapping.date ?? mapping["original_column"].
DateColumnOf(mapping) ==
    Coalesce(Lookup(mapping, "timestamp"),
             Coalesce(Lookup(mapping, "date"), Lookup(mapping, "original_column")))

\* A variant of RevenueExpr that prefers price * quantity to the mapped
\* revenue column.
RevenueExprProductFirst(row, mapping) ==
    LET priceCol == Lookup(mapping, "price")
        qtyCol == Lookup(mapping, "quantity")
    IN  IF TruthyText(priceCol) /\ TruthyText(qtyCol)
        THEN SqlTimes(TryCastDouble(row[priceCol[1]]), TryCastDouble(row[qtyCol[1]]))
        ELSE IF TruthyText(Lookup(mapping, "revenue"))
        THEN TryCastDouble(row[Lookup(mapping, "revenue")[1]])
        ELSE Null

\* revenueExpr of materializeCleanedView, evaluated on a row of data.
RevenueExpr(row, mapping) ==
    LET priceCol == Lookup(mapping, "price")
        qtyCol == Lookup(mapping, "quantity")
    IN  IF TruthyText(Lookup(mapping, "revenue"))
        THEN TryCastDouble(row[Lookup(mapping, "revenue")[1]])
        ELSE IF TruthyText(priceCol) /\ TruthyText(qtyCol)
        THEN SqlTimes(TryCastDouble(row[priceCol[1]]), TryCastDouble(row[qtyCol[1]]))
        ELSE Null

\* The SELECT list of the view materializeCleanedView creates, evaluated on a
\* row of data.
CleanedRow(row, mapping) ==
    LET dateCol == DateColumnOf(mapping)
    IN  [order_id |-> TextColumn(row, Lookup(mapping, "order_id")),
         product  |-> TextColumn(row, Lookup(mapping, "product")),
         ts       |-> IF TruthyText(dateCol) THEN TryCastTimestamp(row[dateCol[1]]) ELSE Null,
         quantity |-> DoubleColumn(row, Lookup(mapping, "quantity")),
         price    |-> DoubleColumn(row, Lookup(mapping, "price")),
         channel  |-> TextColumn(row, Lookup(mapping, "channel")),
         city     |-> TextColumn(row, Lookup(mapping, "city")),
         state    |-> TextColumn(row, Lookup(mapping, "state")),
         zip      |-> TextColumn(row, Lookup(mapping, "zip")),
         revenue  |-> RevenueExpr(row, mapping)]

\* A variant of CleanedRows that drops a row in which the cast of a mapped
\* quantity, price or timestamp cell fails.
CleanedRowsDroppingFailedCasts(table, mapping) ==
    LET castsOk(row) ==
            /\ \A f \in {"quantity", "price"} \cap DOMAIN mapping :
                  TryCastDouble(row[mapping[f]]) # Null
            /\ "timestamp" \in DOMAIN mapping => TryCastTimestamp(row[mapping["timestamp"]]) # Null
        kept == SelectSeq(table, castsOk)
    IN  [i \in DOMAIN kept |-> CleanedRow(kept[i], mapping)]

\* The rows of the view "cleaned" over a raw table: one per row of data, in
\* the table's order.
CleanedRows(table, mapping) == [i \in DOMAIN table |-> CleanedRow(table[i], mapping)]

\* The rows a query FROM cleaned reads in the current state.
Cleaned == CleanedRows(data, cleanedView[1])

\* --------------------------------------------------------- SQL aggregates

\* SUM over a sequence of nullable numbers: NULL values are skipped, and the
\* sum of no value is NULL.
RECURSIVE SqlSum(_)
SqlSum(vals) ==
    IF Len(vals) = 0 THEN Null
    ELSE LET rest == SqlSum(Tail(vals))
         IN  IF Head(vals) = Null THEN rest
             ELSE IF rest = Null THEN Head(vals)
             ELSE Some(Head(vals)[1] + rest[1])

\* MIN and MAX over a sequence of nullable numbers.
SqlMin(vals) ==
    LET present == {vals[i][1] : i \in {n \in DOMAIN vals : vals[n] # Null}}
    IN  IF present = {} THEN Null ELSE Some(CHOOSE x \in present : \A y \in present : x <= y)

SqlMax(vals) ==
    LET present == {vals[i][1] : i \in {n \in DOMAIN vals : vals[n] # Null}}
    IN  IF present = {} THEN Null ELSE Some(CHOOSE x \in present : \A y \in present : y <= x)

\* The elements of a set of numbers in ascending order.
RECURSIVE Ascending(_)
Ascending(S) ==
    IF S = {} THEN <<>>
    ELSE LET lo == CHOOSE x \in S : \A y \in S : x <= y
         IN  <<lo>> \o Ascending(S \ {lo})

Column(rows, name) == [i \in DOMAIN rows |-> rows[i][name]]

\* The common table expression "daily" of getSummary's growth query and of
\* getAnomalies: SELECT DATE_TRUNC('day', ts) AS d, SUM(revenue) FROM cleaned
\* WHERE ts IS NOT NULL GROUP BY 1, one row per day, here in ascending order
\* of d.
Daily(cleaned) ==
    LET dated == SelectSeq(cleaned, LAMBDA r : r.ts # Null)
        days == Ascending({TruncDay(dated[i].ts[1]) : i \in DOMAIN dated})
    IN  [n \in DOMAIN days |->
            [d |-> days[n],
             revenue |-> SqlSum(Column(
                 SelectSeq(dated, LAMBDA r : TruncDay(r.ts[1]) = days[n]), "revenue"))]]

\* -------------------------------------------------------------- getSummary

\* The truthiness of a number-or-null value: a number other than zero.
TruthyNumber(v) == v # Null /\ v[1] # 0

\* A variant of SummaryRow whose totals are COALESCE(SUM(...), 0).
SummaryRowCoalesced(cleaned) ==
    [total_revenue |-> Coalesce(SqlSum(Column(cleaned, "revenue")), Some(0)),
     total_qty     |-> Coalesce(SqlSum(Column(cleaned, "quantity")), Some(0)),
     min_ts        |-> SqlMin(Column(cleaned, "ts")),
     max_ts        |-> SqlMax(Column(cleaned, "ts"))]

\* The first query of getSummary.
SummaryRow(cleaned) ==
    [total_revenue |-> SqlSum(Column(cleaned, "revenue")),
     total_qty     |-> SqlSum(Column(cleaned, "quantity")),
     min_ts        |-> SqlMin(Column(cleaned, "ts")),
     max_ts        |-> SqlMax(Column(cleaned, "ts"))]

\* SUM(CASE WHEN lo <= d [AND d < hi] THEN rev ELSE 0 END) over daily; hi is
\* Null where the CASE has no upper limit.
SumCase(daily, lo, hi) ==
    SqlSum([n \in DOMAIN daily |->
        IF daily[n].d >= lo /\ (hi = Null \/ daily[n].d < hi[1])
        THEN daily[n].revenue
        ELSE Some(0)])

\* The growth query of getSummary, with CURRENT_DATE = currentDate: the one
\* row of "agg".
GrowthRow(cleaned, currentDate) ==
    LET daily == Daily(cleaned)
        month == MonthStartDay(currentDate) * SecondsPerDay
        year == YearStartDay(currentDate) * SecondsPerDay
    IN  [this_month |-> SumCase(daily, month, Null),
         prev_month |-> SumCase(daily,
                            MinusOneMonth(MonthStartDay(currentDate)) * SecondsPerDay,
                            Some(month)),
         this_year  |-> SumCase(daily, year, Null),
         prev_year  |-> SumCase(daily,
                            MinusOneYear(YearStartDay(currentDate)) * SecondsPerDay,
                            Some(year))]

\* A variant of GrowthPct without the guard on a zero previous value.
GrowthPctUnguarded(current, previous) ==
    IF previous # Null
    THEN Some([num |-> Coalesce(current, Some(0))[1] - previous[1], den |-> previous[1]])
    ELSE Null

\* "prev && prev !== 0 ? ((cur ?? 0) - prev) / prev : null", the quotient kept
\* as numerator and denominator.
GrowthPct(current, previous) ==
    IF TruthyNumber(previous) /\ previous[1] # 0
    THEN Some([num |-> Coalesce(current, Some(0))[1] - previous[1], den |-> previous[1]])
    ELSE Null

\* hasDate of getSummary: !!row?.min_ts.
HasDate(row) == TruthyNumber(row.min_ts)

\* getSummary(conn) over the rows of cleaned: the SummaryResult it returns
\* and the row of its growth query, Null when the query is not issued.
getSummary(cleaned, currentDate) ==
    LET row == SummaryRow(cleaned)
        hasDate == HasDate(row)
        g == IF hasDate THEN Some(GrowthRow(cleaned, currentDate)) ELSE Null
    IN  [result |->
            [totalRevenue  |-> row.total_revenue,
             totalQuantity |-> row.total_qty,
             minDate       |-> row.min_ts,
             maxDate       |-> row.max_ts,
             momGrowthPct  |-> IF hasDate THEN GrowthPct(g[1].this_month, g[1].prev_month) ELSE Null,
             yoyGrowthPct  |-> IF hasDate THEN GrowthPct(g[1].this_year, g[1].prev_year) ELSE Null,
             hasDate       |-> hasDate],
         growth |-> g]

\* ------------------------------------------------------------ getAnomalies

\* The sequences that hold each element of the set S of records once, in
\* non-increasing order of the field key: what ORDER BY key DESC may return,
\* records with equal keys coming in any order.
RECURSIVE OrderingsDesc(_)
OrderingsDesc(S) ==
    IF S = {} THEN {<<>>}
    ELSE UNION { {<<m>> \o rest : rest \in OrderingsDesc(S \ {m})} :
                 m \in {x \in S : \A y \in S : y.key <= x.key} }

\* The CTE "stats" over daily, exactly: the number n, the sum and the sum of
\* squares of the non-NULL daily revenues.  AVG(revenue) is sum / n.
AnomalyStats(daily) ==
    LET present == SelectSeq(daily, LAMBDA r : r.revenue # Null)
        values == [i \in DOMAIN present |-> present[i].revenue]
    IN  [n |-> Len(present),
         sum |-> Coalesce(SqlSum(values), Some(0))[1],
         sumSq |-> Coalesce(SqlSum([i \in DOMAIN values |-> Some(values[i][1] * values[i][1])]),
                            Some(0))[1]]

\* A variant of StdDevSampSquared: the population variance, STDDEV_POP.
StdDevPopSquared(stats) ==
    IF stats.n < 1 THEN Null
    ELSE Some([num |-> stats.n * stats.sumSq - stats.sum * stats.sum,
               den |-> stats.n * stats.n])

\* STDDEV_SAMP(revenue) squared, as a quotient: NULL for fewer than two
\* values, else (n * sumSq - sum^2) / (n * (n - 1)).
StdDevSampSquared(stats) ==
    IF stats.n < 2 THEN Null
    ELSE Some([num |-> stats.n * stats.sumSq - stats.sum * stats.sum,
               den |-> stats.n * (stats.n - 1)])

\* (revenue - avg_rev) / NULLIF(sd_rev, 0) as its sign and its square, the
\* quotient sqNum / sqDen; NULL when revenue or sd_rev is NULL or sd_rev is 0.
ZScore(revenue, stats) ==
    LET var == StdDevSampSquared(stats)
        dev == stats.n * revenue[1] - stats.sum
    IN  IF revenue = Null \/ var = Null THEN Null
        ELSE IF var[1].num = 0 THEN Null
        ELSE Some([sign |-> IF dev > 0 THEN 1 ELSE IF dev < 0 THEN 0 - 1 ELSE 0,
                   sqNum |-> dev * dev * var[1].den,
                   sqDen |-> stats.n * stats.n * var[1].num])

\* A variant of AbsAbove2 whose threshold is 1: ABS(z) > 1.
AbsAbove1(z) == z # Null /\ z[1].sqNum > z[1].sqDen

\* A variant of AbsAbove2 that lets every day with a z-score through.
AbsAbove2NoThreshold(z) == z # Null

\* ABS(z) > 2 as a WHERE condition: false for a NULL z.
AbsAbove2(z) == z # Null /\ z[1].sqNum > 4 * z[1].sqDen

\* getAnomalies(conn) over the rows of cleaned: the set of row sequences the
\* query may return.
getAnomalies(cleaned) ==
    LET daily == Daily(cleaned)
        stats == AnomalyStats(daily)
        kept == {n \in DOMAIN daily :
                    /\ StdDevSampSquared(stats) # Null
                    /\ AbsAbove2(ZScore(daily[n].revenue, stats))}
        rows == {[date |-> daily[n].d,
                  revenue |-> daily[n].revenue,
                  zscore |-> ZScore(daily[n].revenue, stats),
                  key |-> ZScore(daily[n].revenue, stats)[1].sqNum] : n \in kept}
        strip(seq) == [i \in DOMAIN seq |->
                          [date |-> seq[i].date, revenue |-> seq[i].revenue,
                           zscore |-> seq[i].zscore]]
    IN  {strip(seq) : seq \in OrderingsDesc(rows)}

\* ------------------------------------- routeChatQuestion: anomalies table

\* The first k rows ORDER BY key DESC may give the set S of records with a
\* key (rows of equal key come in any order), and the first k rows of S in
\* any order.
RECURSIVE FirstDesc(_, _)
FirstDesc(S, k) ==
    IF S = {} \/ k <= 0 THEN {<<>>}
    ELSE UNION { {<<m>> \o rest : rest \in FirstDesc(S \ {m}, k - 1)} :
                 m \in {x \in S : \A y \in S : y.key <= x.key} }

RECURSIVE FirstAny(_, _)
FirstAny(S, k) ==
    IF S = {} \/ k <= 0 THEN {<<>>}
    ELSE UNION { {<<m>> \o rest : rest \in FirstAny(S \ {m}, k - 1)} : m \in S }

\* A variant of routeChatAnomalies that keeps the days with |z| > 2 only.
routeChatAnomaliesAbove2(cleaned) ==
    {SelectSeq(rows, LAMBDA r : AbsAbove2(r.zscore)) : rows \in getAnomalies(cleaned)}

\* The table of the anomalies template: the rows of daily with their z-score
\* WHERE stats.sd_rev IS NOT NULL ORDER BY ABS(zscore) DESC LIMIT 5, as the
\* set of row sequences the query may return.  The rows whose z-score is NULL
\* come together, before or after the others as the engine's NULL order has
\* it.
routeChatAnomalies(cleaned) ==
    LET daily == Daily(cleaned)
        stats == AnomalyStats(daily)
        rows == IF StdDevSampSquared(stats) = Null THEN {}
                ELSE {[date |-> daily[n].d,
                       revenue |-> daily[n].revenue,
                       zscore |-> ZScore(daily[n].revenue, stats),
                       key |-> IF ZScore(daily[n].revenue, stats) = Null THEN 0
                               ELSE ZScore(daily[n].revenue, stats)[1].sqNum] :
                      n \in DOMAIN daily}
        have == {r \in rows : r.zscore # Null}
        none == rows \ have
        strip(seq) == [i \in DOMAIN seq |->
                          [date |-> seq[i].date, revenue |-> seq[i].revenue,
                           zscore |-> seq[i].zscore]]
    IN  {strip(a \o b) : a \in FirstDesc(have, 5), b \in FirstAny(none, 5 - Cardinality(have))}
        \cup {strip(b \o a) : b \in FirstAny(none, 5), a \in FirstDesc(have, 5 - Cardinality(none))}

\* ------------------------------------------------------------ getTimeseries

\* DATE_TRUNC(unit, ts) for the units 'day' and 'month'.
TruncTo(unit, ts) ==
    IF unit = "day" THEN TruncDay(ts) ELSE MonthStartDay(DayOf(ts)) * SecondsPerDay

\* SELECT DATE_TRUNC(unit, ts), SUM(revenue), SUM(quantity) FROM cleaned
\* WHERE ts IS NOT NULL GROUP BY 1 ORDER BY 1: one row per bucket, ascending.
TimeBuckets(cleaned, unit) ==
    LET dated == SelectSeq(cleaned, LAMBDA r : r.ts # Null)
        keys == Ascending({TruncTo(unit, dated[i].ts[1]) : i \in DOMAIN dated})
    IN  [n \in DOMAIN keys |->
            LET rows == SelectSeq(dated, LAMBDA r : TruncTo(unit, r.ts[1]) = keys[n])
            IN  [bucket |-> keys[n],
                 revenue |-> SqlSum(Column(rows, "revenue")),
                 quantity |-> SqlSum(Column(rows, "quantity"))]]

\* A variant of getTimeseries whose monthly series is grouped by day.
getTimeseriesMonthlyByDay(cleaned) ==
    LET daily == TimeBuckets(cleaned, "day")
    IN  [daily |-> [n \in DOMAIN daily |->
                       [date |-> daily[n].bucket, revenue |-> daily[n].revenue,
                        quantity |-> daily[n].quantity]],
         monthly |-> [n \in DOMAIN daily |->
                       [month |-> daily[n].bucket, revenue |-> daily[n].revenue,
                        quantity |-> daily[n].quantity]]]

\* getTimeseries(conn) over the rows of cleaned.
getTimeseries(cleaned) ==
    LET daily == TimeBuckets(cleaned, "day")
        monthly == TimeBuckets(cleaned, "month")
    IN  [daily |-> [n \in DOMAIN daily |->
                       [date |-> daily[n].bucket, revenue |-> daily[n].revenue,
                        quantity |-> daily[n].quantity]],
         monthly |-> [n \in DOMAIN monthly |->
                       [month |-> monthly[n].bucket, revenue |-> monthly[n].revenue,
                        quantity |-> monthly[n].quantity]]]

\* -------------------------------------------------------------- getProducts

\* SELECT product, SUM(revenue) AS revenue, SUM(quantity) AS quantity FROM
\* cleaned WHERE product IS NOT NULL GROUP BY 1: the set of group rows.
ProductGroups(cleaned) ==
    LET named == SelectSeq(cleaned, LAMBDA r : r.product # Null)
    IN  { LET rows == SelectSeq(named, LAMBDA r : r.product = p)
          IN  [product |-> p[1],
               revenue |-> SqlSum(Column(rows, "revenue")),
               quantity |-> SqlSum(Column(rows, "quantity"))] :
          p \in {named[i].product : i \in DOMAIN named} }

\* The sequences that hold each element of the set S once, in any order.
RECURSIVE AllOrders(_)
AllOrders(S) ==
    IF S = {} THEN {<<>>}
    ELSE UNION { {<<m>> \o rest : rest \in AllOrders(S \ {m})} : m \in S }

\* The orders ORDER BY revenue ASC or DESC may give the group rows with a
\* revenue: rows of equal revenue come in any order.
RECURSIVE OrderingsByRevenue(_, _)
OrderingsByRevenue(S, order) ==
    IF S = {} THEN {<<>>}
    ELSE UNION { {<<m>> \o rest : rest \in OrderingsByRevenue(S \ {m}, order)} :
                 m \in {x \in S : \A y \in S :
                           IF order = "asc" THEN x.revenue[1] <= y.revenue[1]
                           ELSE y.revenue[1] <= x.revenue[1]} }

\* ORDER BY revenue over all group rows: the rows whose revenue is NULL come
\* together, before or after the others as the engine's NULL order has it.
ProductOrderings(groups, order) ==
    LET have == {g \in groups : g.revenue # Null}
        none == groups \ have
    IN  {a \o b : a \in OrderingsByRevenue(have, order), b \in AllOrders(none)}
        \cup {b \o a : a \in OrderingsByRevenue(have, order), b \in AllOrders(none)}

\* LIMIT limit OFFSET offset of a sequence of rows.
LimitOffset(rows, limit, offset) ==
    SubSeq(rows, offset + 1, Min2(Len(rows), offset + limit))

\* A variant of getProducts that orders descending whatever order is.
getProductsAlwaysDescending(cleaned, limit, offset, order) ==
    {LimitOffset(full, limit, offset) : full \in ProductOrderings(ProductGroups(cleaned), "desc")}

\* getProducts(conn, limit, offset, order) over the rows of cleaned: the set
\* of row sequences the query may return.
getProducts(cleaned, limit, offset, order) ==
    {LimitOffset(full, limit, offset) :
        full \in ProductOrderings(ProductGroups(cleaned), IF order = "asc" THEN "asc" ELSE "desc")}

\* A parameter's default value: the argument when one is passed.
DefaultTo(arg, default) == IF arg = Null THEN default ELSE arg[1]

\* ------------------------------------------- getChannels, getGeo, chat tables

\* SELECT keys, SUM(revenue) AS revenue, SUM(quantity) AS quantity FROM cleaned
\* GROUP BY keys: the set of group rows, the key columns as the tuple key.
\* With filtered, the rows are those WHERE some key column IS NOT NULL.
GroupRows(cleaned, keys, filtered) ==
    LET KeyOf(r) == [k \in DOMAIN keys |-> r[keys[k]]]
        kept == SelectSeq(cleaned, LAMBDA r : filtered => \E k \in DOMAIN keys : r[keys[k]] # Null)
    IN  { LET rows == SelectSeq(kept, LAMBDA r : KeyOf(r) = key)
          IN  [key |-> key,
               revenue |-> SqlSum(Column(rows, "revenue")),
               quantity |-> SqlSum(Column(rows, "quantity"))] :
          key \in {KeyOf(kept[i]) : i \in DOMAIN kept} }

\* getChannels(conn): WHERE channel IS NOT NULL GROUP BY 1 ORDER BY revenue
\* DESC, as the set of row sequences the query may return.
getChannels(cleaned) == ProductOrderings(GroupRows(cleaned, <<"channel">>, TRUE), "desc")

\* getGeo(conn): WHERE state IS NOT NULL OR city IS NOT NULL GROUP BY 1,2 ORDER
\* BY revenue DESC.
getGeo(cleaned) == ProductOrderings(GroupRows(cleaned, <<"state", "city">>, TRUE), "desc")

\* The GROUP BY columns of the chat templates that query a grouped table.
ChatGroupKeys ==
    [top_products |-> <<"product">>, channels |-> <<"channel">>, geo |-> <<"state", "city">>]

\* A variant of routeChatGroups whose query has the WHERE clause of the
\* aggregate functions.
routeChatGroupsFiltered(cleaned, keys) ==
    {LimitOffset(full, 5, 0) : full \in ProductOrderings(GroupRows(cleaned, keys, TRUE), "desc")}

\* The table of the top_products, channels and geo templates: GROUP BY the
\* keys ORDER BY revenue DESC LIMIT 5, with no WHERE clause.
routeChatGroups(cleaned, keys) ==
    {LimitOffset(full, 5, 0) : full \in ProductOrderings(GroupRows(cleaned, keys, FALSE), "desc")}

\* ---------------------------------------------------------- buildColumnMap

\* A variant of BuildColumnMapFrom in which an entry once written is kept.
RECURSIVE BuildColumnMapFirstWins(_, _, _)
BuildColumnMapFirstWins(map, columns, i) ==
    IF i > Len(columns) THEN map
    ELSE BuildColumnMapFirstWins(
            IF columns[i].canonicalName # Null
            THEN map @@ (columns[i].canonicalName[1] :> columns[i].originalName)
            ELSE map,
            columns, i + 1)

\* buildColumnMap(schema) from the i-th column of schema.columns on: each
\* column with a canonicalName writes map[canonicalName] = originalName.
RECURSIVE BuildColumnMapFrom(_, _, _)
BuildColumnMapFrom(map, columns, i) ==
    IF i > Len(columns) THEN map
    ELSE BuildColumnMapFrom(
            IF columns[i].canonicalName # Null
            THEN (columns[i].canonicalName[1] :> columns[i].originalName) @@ map
            ELSE map,
            columns, i + 1)

buildColumnMap(columns) == BuildColumnMapFrom(<<>>, columns, 1)

\* tsMapping?.originalName of handleFile: the name of the first column that
\* inferCanonical made a timestamp, undefined when there is none.
tsMapping(columns) ==
    LET hits == {i \in DOMAIN columns : columns[i].canonicalName = Some("timestamp")}
    IN  IF hits = {} THEN Null
        ELSE Some(columns[CHOOSE i \in hits : \A j \in hits : i <= j].originalName)

\* The ColumnMap runAggregates passes for a table with these column names:
\* buildColumnMap over columns.map(inferCanonical).
ColumnMapFor(names) ==
    buildColumnMap([i \in DOMAIN names |-> inferCanonical(names[i])])

\* The sequences of at most n elements of the set S.
RECURSIVE SeqsUpTo(_, _)
SeqsUpTo(S, n) ==
    IF n = 0 THEN {<<>>}
    ELSE LET shorter == SeqsUpTo(S, n - 1)
         IN  shorter \cup {<<x>> \o t : x \in S, t \in {u \in shorter : Len(u) = n - 1}}

\* ------------------------------------------- upload component: its state

\* Content hashes of the files the user uploads; sha256Hex is taken to be
\* injective, so a hash stands for the file.
FileHashes == {"h1", "h2", "h3"}

\* Number of columns read_csv_auto finds in each file; the last file has more
\* than MAX_COLUMNS.
ColumnCount(hash) == IF hash = "h3" THEN MAX_COLUMNS + 1 ELSE MaxSchemaColumns

\* The fields of a CachePayload this model keeps (insights are left out).
NoPayload == [result |-> Null, agg |-> Null, chatMessages |-> Null, lastRefreshed |-> Null]

\* loadCache: Null when localStorage has no item under the key of the hash.
loadCache(store, hash) == store.cache[hash]

\* saveCache: { ...(existing ?? {}), ...data } is written under the key of the
\* hash; data is a record holding only the fields the caller passes.
saveCache(store, hash, payload) ==
    LET existing == IF loadCache(store, hash) = Null THEN NoPayload ELSE loadCache(store, hash)[1]
        merged == [field \in DOMAIN NoPayload |->
                      IF field \in DOMAIN payload THEN payload[field] ELSE existing[field]]
    IN  [store EXCEPT !.cache[hash] = Some(merged)]

saveLastSession(store, hash) == [store EXCEPT !.last = Some(hash)]

\* persistSession of the render whose fileHash is the one given.
persistSession(store, fileHash, payload) ==
    IF fileHash = Null THEN store
    ELSE saveLastSession(saveCache(store, fileHash[1], payload), fileHash[1])

\* First index of an entry of the hash, 0 when there is none (findIndex).
RECURSIVE FindEntryFrom(_, _, _)
FindEntryFrom(entries, hash, i) ==
    IF i > Len(entries) THEN 0
    ELSE IF entries[i].hash = hash THEN i
    ELSE FindEntryFrom(entries, hash, i + 1)

\* An upsert that always appends.
upsertHistoryEntryAppending(entries, entry) == Append(entries, entry)

upsertHistoryEntry(entries, entry) ==
    LET idx == FindEntryFrom(entries, entry.hash, 1)
    IN  IF idx = 0 THEN Append(entries, entry) ELSE [entries EXCEPT ![idx] = entry]

\* The list updateHistoryEntry computes from the current history (titles and
\* row counts are left out); overrides.lastRefreshed ?? existing?.lastRefreshed.
UpdatedHistory(entries, hash, lastRefreshed) ==
    LET idx == FindEntryFrom(entries, hash, 1)
        kept == IF lastRefreshed # Null \/ idx = 0 THEN lastRefreshed
                ELSE entries[idx].lastRefreshed
    IN  upsertHistoryEntry(entries, [hash |-> hash, lastRefreshed |-> kept])

\* A filter that drops every entry.
RemoveEveryEntry(entries, hash) == SelectSeq(entries, LAMBDA entry : FALSE)

\* deleteHistoryEntry's filter.
RemoveEntry(entries, hash) == SelectSeq(entries, LAMBDA entry : entry.hash # hash)

\* The React state of a freshly constructed component (the useState defaults;
\* db goes with conn; insights and the title are left out), with the build's
\* LLM_ENABLED as llmEnabled.
DefaultUi ==
    [conn |-> FALSE, loading |-> FALSE, aggLoading |-> FALSE, chatLoading |-> FALSE,
     error |-> Null, chatError |-> Null, result |-> Null, agg |-> Null, aggView |-> Null,
     lastRefreshed |-> Null, fileHash |-> Null, selectedHash |-> Null, cacheHit |-> FALSE,
     history |-> <<>>, chatInput |-> FALSE, chatMessages |-> 0, llmEnabled |-> TRUE]

\* The session a cache entry restores (mount effect, restoreFromHistory).
RestoredSession(u, hash, cached, lastRefreshed) ==
    [u EXCEPT !.cacheHit = TRUE, !.fileHash = Some(hash), !.result = cached.result,
              !.agg = cached.agg, !.aggView = cached.agg,
              !.chatMessages = IF cached.chatMessages = Null THEN 0 ELSE cached.chatMessages[1],
              !.lastRefreshed = lastRefreshed, !.selectedHash = Some(hash)]

\* The state after the mount effect has read localStorage.
Mounted(store) ==
    LET loaded == [DefaultUi EXCEPT !.history = store.history]
    IN  IF store.last # Null /\ loadCache(store, store.last[1]) # Null
        THEN LET cached == loadCache(store, store.last[1])[1]
             IN  RestoredSession(loaded, store.last[1], cached, cached.lastRefreshed)
        ELSE loaded

EmptyStorage == [cache |-> [hash \in FileHashes |-> Null], history |-> <<>>, last |-> Null]

NoStatements == [table |-> Null, cleaned |-> Null, inflight |-> {}]

NoTasks ==
    [handleFile |-> Null, runAggregates |-> Null, runChat |-> Null, runChatAgain |-> Null,
     events |-> 0, last |-> Null]

ComponentIdle ==
    /\ ui = DefaultUi
    /\ storage = EmptyStorage
    /\ duck = NoStatements
    /\ tasks = NoTasks
    /\ now = 0

\* ----------------------------------------------------------- specifications

NoInference == [component |-> Null, route |-> Null]

MapperIdle == colName = <<>> /\ inference = NoInference

\* The upload API route before any request: no connection is open, no
\* request is being handled.
NoRequest ==
    [pc |-> "idle", conn |-> "none", open |-> 0, served |-> 0, response |-> Null,
     tooMany |-> FALSE, hasTimestamp |-> FALSE]

RouteIdle == post = NoRequest

RouterIdle == question = <<>> /\ chat = Null

NoResults ==
    /\ summary = Null
    /\ growth = Null
    /\ anomalies = Null
    /\ builtMap = Null
    /\ timeseries = Null
    /\ products = Null
    /\ chatTable = Null

\* No schema is given to buildColumnMap and getProducts is called with its
\* default arguments.
NoArguments == schemaColumns = <<>> /\ productsArgs = Null

AnalyticsIdle ==
    /\ data = <<>>
    /\ columnMap = <<>>
    /\ today = 0
    /\ cleanedView = Null
    /\ materializations = 0
    /\ RouteIdle
    /\ NoResults
    /\ ComponentIdle
    /\ NoArguments

\* The mapper classifies the raw column name: the component's inferCanonical
\* and the API route's are both applied to it.
InferCanonical ==
    /\ inference' = [component |-> Some(inferCanonical(colName)),
                     route |-> Some(inferCanonicalRoute(colName))]
    /\ UNCHANGED <<routeVars, componentVars, colName, routerVars, inputVars, viewVars, resultVars>>

InitMapper ==
    /\ colName \in ColumnNames
    /\ inference = NoInference
    /\ RouterIdle
    /\ AnalyticsIdle

NextMapper == InferCanonical

SpecMapper == InitMapper /\ [][NextMapper]_vars

\* routeChatQuestion(conn, agg, question): the router classifies the question
\* and, for the anomalies, top_products, channels and geo templates over a
\* built view, queries its table (the tables of the growth and summary
\* templates are not part of the model).
RouteChatQuestion ==
    LET template == ChatTemplate(ToLowerCase(question))
    IN  /\ chat' = Some([template |-> template])
        /\ IF cleanedView = Null
           THEN chatTable' = Null
           ELSE IF template = "anomalies"
           THEN \E rows \in routeChatAnomalies(Cleaned) : chatTable' = Some(rows)
           ELSE IF template \in DOMAIN ChatGroupKeys
           THEN \E rows \in routeChatGroups(Cleaned, ChatGroupKeys[template]) :
                    chatTable' = Some(rows)
           ELSE chatTable' = Null
        /\ UNCHANGED <<routeVars, componentVars, mapperVars, question, inputVars, viewVars, summary, growth,
                       anomalies, builtMap, timeseries, products>>

InitRouter ==
    /\ question \in Questions
    /\ chat = Null
    /\ MapperIdle
    /\ AnalyticsIdle

NextRouter == RouteChatQuestion

SpecRouter == InitRouter /\ [][NextRouter]_vars

\* The raw column names a, b and t.
ColA == <<"a">>

ColB == <<"b">>

ColT == <<"t">>

\* buildColumnMap(schema).
BuildColumnMap ==
    /\ builtMap' = Some(buildColumnMap(schemaColumns))
    /\ UNCHANGED <<routeVars, componentVars, mapperVars, routerVars, inputVars, viewVars, summary, growth,
                   anomalies, timeseries, products, chatTable>>

\* The schemas of the column-map specification: every list of at most
\* MaxSchemaColumns columns, each named a, b or t and inferred to be a
\* product, a price, a timestamp or nothing.
SchemaColumnChoices ==
    [originalName : {ColA, ColB, ColT},
     canonicalName : {Null, Some("product"), Some("price"), Some("timestamp")},
     confidence : {90}]

InitColumnMap ==
    /\ schemaColumns \in SeqsUpTo(SchemaColumnChoices, MaxSchemaColumns)
    /\ productsArgs = Null
    /\ data = <<>>
    /\ columnMap = <<>>
    /\ today = 0
    /\ cleanedView = Null
    /\ materializations = 0
    /\ RouteIdle
    /\ NoResults
    /\ ComponentIdle
    /\ MapperIdle
    /\ RouterIdle

NextColumnMap == BuildColumnMap

SpecColumnMap == InitColumnMap /\ [][NextColumnMap]_vars

\* A variant of materializeCleanedView that replaces an existing view by one
\* that selects NULL for every column.
MaterializeCleanedViewBlanking ==
    /\ materializations < MaxMaterializations
    /\ materializations' = materializations + 1
    /\ cleanedView' = Some(IF cleanedView = Null THEN columnMap ELSE <<>>)
    /\ UNCHANGED <<routeVars, componentVars, mapperVars, routerVars, inputVars, resultVars>>

\* materializeCleanedView(conn, columnMap): CREATE OR REPLACE VIEW cleaned.
MaterializeCleanedView ==
    /\ materializations < MaxMaterializations
    /\ materializations' = materializations + 1
    /\ cleanedView' = Some(columnMap)
    /\ UNCHANGED <<routeVars, componentVars, mapperVars, routerVars, inputVars, resultVars>>

\* The raw tables of the cleaned-view specification: columns a and b hold
\* numbers, texts that are no numbers and NULL; column t holds timestamps and
\* texts that are none.
CleanedRawRows ==
    { (ColA :> a) @@ (ColB :> b) @@ (ColT :> t) :
        a \in { <<"2">>, <<"a","b","c">> },
        b \in { <<"-","3">>, Null },
        t \in { <<"2","0","2","4","-","0","1","-","0","5">>, <<"n","o","p","e">> } }

\* The ColumnMaps of the cleaned-view specification: every way of leaving a
\* field out or mapping it to one of the columns listed for it.
ColumnMapChoices ==
    [ order_id |-> {ColA}, product |-> {ColA, ColT}, timestamp |-> {ColT},
      quantity |-> {ColB}, price |-> {ColA, ColB}, revenue |-> {ColA},
      channel |-> {ColT}, original_column |-> {ColT} ]

RECURSIVE ColumnMapsOver(_)
ColumnMapsOver(keys) ==
    IF keys = {} THEN {<<>>}
    ELSE LET k == CHOOSE x \in keys : TRUE
             rest == ColumnMapsOver(keys \ {k})
         IN  rest \cup {(k :> c) @@ m : c \in ColumnMapChoices[k], m \in rest}

ColumnMaps == ColumnMapsOver(DOMAIN ColumnMapChoices)

InitCleaned ==
    /\ data \in SeqsUpTo(CleanedRawRows, MaxCleanedRows)
    /\ columnMap \in ColumnMaps
    /\ today = 0
    /\ cleanedView = Null
    /\ materializations = 0
    /\ RouteIdle
    /\ NoResults
    /\ ComponentIdle
    /\ NoArguments
    /\ MapperIdle
    /\ RouterIdle

NextCleaned == MaterializeCleanedView

SpecCleaned == InitCleaned /\ [][NextCleaned]_vars

\* getSummary(conn).
GetSummary ==
    /\ cleanedView # Null
    /\ LET r == getSummary(Cleaned, today)
       IN  /\ summary' = Some(r.result)
           /\ growth' = r.growth
    /\ UNCHANGED <<routeVars, componentVars, mapperVars, routerVars, inputVars, viewVars, anomalies,
                   builtMap, timeseries, products, chatTable>>

\* The raw tables of the summary specification: a timestamp column "Date", a
\* revenue column "total" and a quantity column "qty".
ColDate == <<"D","a","t","e">>

ColTotal == <<"t","o","t","a","l">>

ColQty == <<"q","t","y">>

\* 1970-01-01 is timestamp zero; the others lie before, in and after the
\* month and the year of the evaluation dates; the last is no timestamp.
SummaryDateTexts ==
    { <<"1","9","7","0","-","0","1","-","0","1">>,
      <<"2","0","2","3","-","1","2","-","3","1">>,
      <<"2","0","2","4","-","0","1","-","0","1">>,
      <<"2","0","2","4","-","0","2","-","2","9">>,
      <<"2","0","2","4","-","0","3","-","1","5"," ","1","3",":","3","0",":","0","0">>,
      <<"2","0","2","4","-","0","4","-","0","1">>,
      <<"2","0","2","5","-","0","1","-","0","1">>,
      <<"n","o","p","e">> }

SummaryRawRows ==
    { (ColDate :> d) @@ (ColTotal :> v) @@ (ColQty :> <<"2">>) :
        d \in SummaryDateTexts, v \in { <<"0">>, <<"5">> } }

\* The evaluation dates: 2024-03-15 and 2024-01-10.
EvaluationDates == { DaysFromCivil(2024, 3, 15), DaysFromCivil(2024, 1, 10) }

InitSummary ==
    /\ data \in SeqsUpTo(SummaryRawRows, MaxSummaryRows)
    /\ columnMap = ColumnMapFor(<<ColDate, ColTotal, ColQty>>)
    /\ today \in EvaluationDates
    /\ cleanedView = Null
    /\ materializations = 0
    /\ RouteIdle
    /\ NoResults
    /\ ComponentIdle
    /\ NoArguments
    /\ MapperIdle
    /\ RouterIdle

NextSummary ==
    \/ MaterializeCleanedView
    \/ GetSummary

SpecSummary == InitSummary /\ [][NextSummary]_vars

\* getAnomalies(conn).
GetAnomalies ==
    /\ cleanedView # Null
    /\ \E rows \in getAnomalies(Cleaned) : anomalies' = Some(rows)
    /\ UNCHANGED <<routeVars, componentVars, mapperVars, routerVars, inputVars, viewVars, summary, growth,
                   builtMap, timeseries, products, chatTable>>

\* The text of the n-th day of March 2024, "2024-03-nn".
MarchDay(n) ==
    <<"2","0","2","4","-","0","3","-">> \o <<Digits[(n \div 10) + 1], Digits[(n % 10) + 1]>>

RawRow(date, total) == (ColDate :> date) @@ (ColTotal :> total) @@ (ColQty :> <<"2">>)

\* A raw table with one row on each of base days of revenue 1, then on each
\* of high days of revenue 10, and the rows the set extras asks for: a second
\* row of revenue 1 on the last of those days, a day of revenue -12, a day
\* whose revenue cell is NULL, a row whose Date is no timestamp.
AnomalyTable(base, high, extras) ==
    [i \in 1..base |-> RawRow(MarchDay(i), <<"1">>)]
    \o [i \in 1..high |-> RawRow(MarchDay(base + i), <<"1","0">>)]
    \o (IF "second_row" \in extras /\ base + high > 0
        THEN <<RawRow(MarchDay(base + high), <<"1">>)>> ELSE <<>>)
    \o (IF "negative_day" \in extras
        THEN <<RawRow(MarchDay(base + high + 1), <<"-","1","2">>)>> ELSE <<>>)
    \o (IF "null_revenue_day" \in extras
        THEN <<RawRow(MarchDay(base + high + 2), Null)>> ELSE <<>>)
    \o (IF "no_timestamp" \in extras
        THEN <<RawRow(<<"n","o","p","e">>, <<"1","0">>)>> ELSE <<>>)

AnomalyExtras == SUBSET {"second_row", "negative_day", "null_revenue_day", "no_timestamp"}

\* The series of the specification's example, one row a day: 100, 100, 100,
\* 100, 1000; and the same daily totals with the first day's 100 in two rows.
ExampleSeries ==
    [i \in 1..4 |-> RawRow(MarchDay(i), <<"1","0","0">>)]
    \o <<RawRow(MarchDay(5), <<"1","0","0","0">>)>>

ExampleSeriesSplit ==
    <<RawRow(MarchDay(1), <<"4","0">>), RawRow(MarchDay(1), <<"6","0">>)>>
    \o Tail(ExampleSeries)

AnomalyTables ==
    { AnomalyTable(b, h, e) :
        b \in 0..MaxAnomalyDays, h \in 0..MaxOutlierDays, e \in AnomalyExtras }
    \cup {ExampleSeries, ExampleSeriesSplit}

InitAnomalies ==
    /\ data \in AnomalyTables
    /\ columnMap = ColumnMapFor(<<ColDate, ColTotal, ColQty>>)
    /\ today = DaysFromCivil(2024, 3, 15)
    /\ cleanedView = Null
    /\ materializations = 0
    /\ RouteIdle
    /\ NoResults
    /\ ComponentIdle
    /\ NoArguments
    /\ MapperIdle
    /\ RouterIdle

NextAnomalies ==
    \/ MaterializeCleanedView
    \/ GetAnomalies

SpecAnomalies == InitAnomalies /\ [][NextAnomalies]_vars

\* getTimeseries(conn).
GetTimeseries ==
    /\ cleanedView # Null
    /\ timeseries' = Some(getTimeseries(Cleaned))
    /\ UNCHANGED <<routeVars, componentVars, mapperVars, routerVars, inputVars, viewVars, summary, growth,
                   anomalies, builtMap, products, chatTable>>

\* The raw tables of the time-series specification: rows on 2024-01-01 (at
\* midnight and in the afternoon), 2024-01-31 and 2024-02-01 and rows whose
\* Date is no timestamp; total and qty are numbers or, for total, no number.
TimeseriesDateTexts ==
    { <<"2","0","2","4","-","0","1","-","0","1">>,
      <<"2","0","2","4","-","0","1","-","0","1"," ","1","3",":","3","0",":","0","0">>,
      <<"2","0","2","4","-","0","1","-","3","1">>,
      <<"2","0","2","4","-","0","2","-","0","1">>,
      <<"n","o","p","e">> }

TimeseriesRawRows ==
    { (ColDate :> d) @@ (ColTotal :> v[1]) @@ (ColQty :> v[2]) :
        d \in TimeseriesDateTexts,
        v \in { << <<"5">>, <<"2">> >>, << <<"a","b","c">>, <<"3">> >> } }

InitTimeseries ==
    /\ data \in SeqsUpTo(TimeseriesRawRows, MaxTimeseriesRows)
    /\ columnMap = ColumnMapFor(<<ColDate, ColTotal, ColQty>>)
    /\ today = DaysFromCivil(2024, 3, 15)
    /\ cleanedView = Null
    /\ materializations = 0
    /\ RouteIdle
    /\ NoResults
    /\ ComponentIdle
    /\ NoArguments
    /\ MapperIdle
    /\ RouterIdle

NextTimeseries ==
    \/ MaterializeCleanedView
    \/ GetTimeseries

SpecTimeseries == InitTimeseries /\ [][NextTimeseries]_vars

\* getProducts(conn, limit = 10, offset = 0, order = "desc").
GetProducts ==
    /\ cleanedView # Null
    /\ \E rows \in getProducts(Cleaned,
                               DefaultTo(productsArgs.limit, 10),
                               DefaultTo(productsArgs.offset, 0),
                               DefaultTo(productsArgs.order, "desc")) :
          products' = Some(rows)
    /\ UNCHANGED <<routeVars, componentVars, mapperVars, routerVars, inputVars, viewVars, summary, growth,
                   anomalies, builtMap, timeseries, chatTable>>

\* The raw tables of the products specification: a product column "sku" that
\* holds x, y or NULL, a revenue column "total" that holds 1, 5 or no number;
\* and the tables of many products, each with a revenue of its own.
ColSku == <<"s","k","u">>

ProductRawRows ==
    { (ColSku :> p) @@ (ColTotal :> v) @@ (ColQty :> <<"2">>) :
        p \in { <<"x">>, <<"y">>, Null },
        v \in { <<"1">>, <<"5">>, <<"a","b","c">> } }

ManyProducts(n) ==
    [i \in 1..n |->
        LET number == <<Digits[(i \div 10) + 1], Digits[(i % 10) + 1]>>
        IN  (ColSku :> (<<"p">> \o number)) @@ (ColTotal :> number) @@ (ColQty :> <<"2">>)]

ProductTables ==
    SeqsUpTo(ProductRawRows, MaxProductRows)
    \cup {ManyProducts(n) : n \in 9..MaxManyProducts}

\* The arguments of the call: each is passed or left to its default.
ProductArguments ==
    [limit : {Null, Some(0), Some(1), Some(2)},
     offset : {Null, Some(1)},
     order : {Null, Some("asc"), Some("desc")}]

InitProducts ==
    /\ data \in ProductTables
    /\ columnMap = ColumnMapFor(<<ColSku, ColTotal, ColQty>>)
    /\ productsArgs \in ProductArguments
    /\ schemaColumns = <<>>
    /\ today = DaysFromCivil(2024, 3, 15)
    /\ cleanedView = Null
    /\ materializations = 0
    /\ RouteIdle
    /\ NoResults
    /\ ComponentIdle
    /\ MapperIdle
    /\ RouterIdle

NextProducts ==
    \/ MaterializeCleanedView
    \/ GetProducts

SpecProducts == InitProducts /\ [][NextProducts]_vars

\* The question of the chat specification: two that route to the anomalies
\* template and one that names a product first.
AnomalyQuestions ==
    { <<"A","n","y"," ","o","u","t","l","i","e","r"," ","d","a","y","s","?">>,
      <<"a","n","o","m","a","l","y">>,
      <<"t","o","p"," ","p","r","o","d","u","c","t"," ","a","n","o","m","a","l","y">> }

\* The text of a number below 100.
NumberText(n) ==
    IF n < 10 THEN <<Digits[n + 1]>> ELSE <<Digits[(n \div 10) + 1], Digits[(n % 10) + 1]>>

\* A raw table with one row on each of days days, of revenue 1 each when
\* equal and else 1, 4, 9, ... and the rows the set extras asks for: a second
\* row of revenue 1 on the last day, a day whose revenue cell is NULL, a row
\* whose Date is no timestamp.
ChatTable(equal, days, extras) ==
    [i \in 1..days |-> RawRow(MarchDay(i), IF equal THEN <<"1">> ELSE NumberText(i * i))]
    \o (IF "second_row" \in extras /\ days > 0
        THEN <<RawRow(MarchDay(days), <<"1">>)>> ELSE <<>>)
    \o (IF "null_revenue_day" \in extras
        THEN <<RawRow(MarchDay(days + 1), Null)>> ELSE <<>>)
    \o (IF "no_timestamp" \in extras
        THEN <<RawRow(<<"n","o","p","e">>, <<"1","0">>)>> ELSE <<>>)

ChatTables ==
    { ChatTable(equal, days, extras) :
        equal \in BOOLEAN, days \in 0..MaxChatDays,
        extras \in SUBSET {"second_row", "null_revenue_day", "no_timestamp"} }

InitChat ==
    /\ question \in AnomalyQuestions
    /\ chat = Null
    /\ data \in ChatTables
    /\ columnMap = ColumnMapFor(<<ColDate, ColTotal, ColQty>>)
    /\ today = DaysFromCivil(2024, 3, 15)
    /\ cleanedView = Null
    /\ materializations = 0
    /\ RouteIdle
    /\ NoResults
    /\ ComponentIdle
    /\ NoArguments
    /\ MapperIdle

\* runChat rebuilds the view and then routes the question, once.
NextChat ==
    \/ MaterializeCleanedView
    \/ cleanedView # Null /\ chat = Null /\ RouteChatQuestion

SpecChat == InitChat /\ [][NextChat]_vars

\* The questions and raw tables of the chat-groups specification: a product
\* column "sku", the columns "channel", "state" and "city", each holding a
\* name or NULL, and a revenue column "total".
GroupQuestions ==
    { <<"T","o","p"," ","p","r","o","d","u","c","t","s">>,
      <<"b","y"," ","c","h","a","n","n","e","l">>,
      <<"c","i","t","y","?">> }

ColChannel == <<"c","h","a","n","n","e","l">>

ColState == <<"s","t","a","t","e">>

ColCity == <<"c","i","t","y">>

GroupRawRows ==
    { (ColSku :> p) @@ (ColChannel :> c) @@ (ColState :> s) @@ (ColCity :> y)
          @@ (ColTotal :> v) @@ (ColQty :> <<"2">>) :
        p \in { <<"x">>, Null }, c \in { <<"w","e","b">>, Null },
        s \in { <<"N","Y">>, Null }, y \in { <<"R","y","e">>, Null },
        v \in { <<"1">>, <<"5">> } }

InitChatGroups ==
    /\ question \in GroupQuestions
    /\ chat = Null
    /\ data \in SeqsUpTo(GroupRawRows, MaxGroupRows)
    /\ columnMap = ColumnMapFor(<<ColSku, ColChannel, ColState, ColCity, ColTotal, ColQty>>)
    /\ today = DaysFromCivil(2024, 3, 15)
    /\ cleanedView = Null
    /\ materializations = 0
    /\ RouteIdle
    /\ NoResults
    /\ ComponentIdle
    /\ NoArguments
    /\ MapperIdle

SpecChatGroups == InitChatGroups /\ [][NextChat]_vars

\* The tables of the rebuilt-view specification: dated rows, rows of the
\* grouped columns and the daily series of the anomalies specification, each
\* with the column map inferred from its header.
InitRebuild ==
    /\ \/ /\ data \in SeqsUpTo(TimeseriesRawRows, MaxRebuildRows)
          /\ columnMap = ColumnMapFor(<<ColDate, ColTotal, ColQty>>)
       \/ /\ data \in SeqsUpTo(GroupRawRows, MaxRebuildRows)
          /\ columnMap = ColumnMapFor(<<ColSku, ColChannel, ColState, ColCity, ColTotal, ColQty>>)
       \/ /\ data \in AnomalyTables
          /\ columnMap = ColumnMapFor(<<ColDate, ColTotal, ColQty>>)
    /\ today = DaysFromCivil(2024, 3, 15)
    /\ cleanedView = Null
    /\ materializations = 0
    /\ RouteIdle
    /\ NoResults
    /\ ComponentIdle
    /\ NoArguments
    /\ MapperIdle
    /\ RouterIdle

\* runAggregates and runChat each rebuild the view before they query it.
NextRebuild == MaterializeCleanedView

SpecRebuild == InitRebuild /\ [][NextRebuild]_vars

\* --------------------------------------- upload component: its operations

pureVars == <<mapperVars, routerVars, inputVars, viewVars, resultVars, routeVars>>

\* The aggregate queries of one runAggregates call, in the order it awaits them.
AggregateQueries == <<"summary", "timeseries", "products", "geo", "channels", "anomalies">>

\* A statement is sent on the connection: it is in flight until its promise
\* settles.
Issue(db, owner, kind) == [db EXCEPT !.inflight = @ \cup {[owner |-> owner, kind |-> kind]}]

Settle(db, owner, kind) == [db EXCEPT !.inflight = @ \ {[owner |-> owner, kind |-> kind]}]

\* The invocation of a handler is at the await named pc ("done": it returned).
At(task, pc) == task # Null /\ task[1].pc = pc

\* The UI event just handled is recorded in tasks.
Handled(name, hash) ==
    [tasks EXCEPT !.events = @ + 1, !.last = Some([name |-> name, hash |-> hash])]

Done(task, outcome) == Some([task EXCEPT !.pc = "done", !.outcome = outcome])

\* handleFile up to its first await: the displayed session is reset. The file
\* input is never disabled; the model keeps at most one handleFile call in
\* progress.
HandleFile(hash) ==
    /\ tasks.events < MaxEvents
    /\ tasks.handleFile = Null \/ At(tasks.handleFile, "done")
    /\ ui' = [ui EXCEPT !.error = Null, !.result = Null, !.agg = Null, !.chatMessages = 0,
                        !.chatError = Null, !.chatInput = FALSE, !.loading = TRUE]
    /\ tasks' = [Handled("handleFile", Some(hash)) EXCEPT
                    !.handleFile = Some([pc |-> "hashing", hash |-> hash, outcome |-> Null])]
    /\ UNCHANGED <<storage, duck, now, pureVars>>

\* A cache hit that showed no result.
HandleFileCachedWithoutResult(u, cached, entries) ==
    [u EXCEPT !.cacheHit = TRUE, !.agg = cached.agg, !.lastRefreshed = cached.lastRefreshed,
              !.history = entries, !.loading = FALSE]

\* The state handleFile sets when loadCache finds an entry.
HandleFileCached(u, cached, entries) ==
    [u EXCEPT !.cacheHit = TRUE, !.result = cached.result, !.agg = cached.agg,
              !.chatMessages = IF cached.chatMessages = Null THEN 0 ELSE cached.chatMessages[1],
              !.lastRefreshed = cached.lastRefreshed, !.history = entries, !.loading = FALSE]

\* handleFile once the hash is known: the cache hit returns, the miss goes on
\* to ensureDb.
HandleFileHashed ==
    /\ At(tasks.handleFile, "hashing")
    /\ LET task == tasks.handleFile[1]
           cached == loadCache(storage, task.hash)
           located == [ui EXCEPT !.fileHash = Some(task.hash), !.selectedHash = Some(task.hash)]
       IN  IF cached # Null
           THEN LET entries == UpdatedHistory(ui.history, task.hash, cached[1].lastRefreshed)
                IN  /\ ui' = HandleFileCached(located, cached[1], entries)
                    /\ storage' = saveLastSession([storage EXCEPT !.history = entries], task.hash)
                    /\ tasks' = [tasks EXCEPT !.handleFile = Done(task, "cache hit")]
           ELSE /\ ui' = [located EXCEPT !.cacheHit = FALSE]
                /\ tasks' = [tasks EXCEPT !.handleFile = Some([task EXCEPT !.pc = "connecting"])]
                /\ UNCHANGED storage
    /\ UNCHANGED <<duck, now, pureVars>>

\* The catch and finally blocks of handleFile.
HandleFileFailed(u, message) == [u EXCEPT !.error = Some(message), !.loading = FALSE]

\* ensureDb and registerFileBuffer have settled; CREATE OR REPLACE TABLE data
\* is sent.
HandleFileConnected(ok) ==
    /\ At(tasks.handleFile, "connecting")
    /\ LET task == tasks.handleFile[1]
       IN  IF ok
           THEN /\ ui' = [ui EXCEPT !.conn = TRUE]
                /\ duck' = Issue(duck, "handleFile", "table")
                /\ tasks' = [tasks EXCEPT !.handleFile = Some([task EXCEPT !.pc = "creating"])]
           ELSE /\ ui' = HandleFileFailed(ui, "Upload failed")
                /\ tasks' = [tasks EXCEPT !.handleFile = Done(task, "failed")]
                /\ UNCHANGED duck
    /\ UNCHANGED <<storage, now, pureVars>>

\* CREATE OR REPLACE TABLE data has settled; the inference queries follow.
HandleFileCreated(ok) ==
    /\ At(tasks.handleFile, "creating")
    /\ LET task == tasks.handleFile[1]
           settled == Settle(duck, "handleFile", "table")
       IN  IF ok
           THEN /\ duck' = Issue([settled EXCEPT !.table = Some(task.hash)], "handleFile", "inference")
                /\ tasks' = [tasks EXCEPT !.handleFile = Some([task EXCEPT !.pc = "inferring"])]
                /\ UNCHANGED ui
           ELSE /\ duck' = settled
                /\ ui' = HandleFileFailed(ui, "Upload failed")
                /\ tasks' = [tasks EXCEPT !.handleFile = Done(task, "failed")]
    /\ UNCHANGED <<storage, now, pureVars>>

\* The inference queries (table_info, count, preview, dates, distinct counts)
\* have settled.
HandleFileInferred(ok) ==
    /\ At(tasks.handleFile, "inferring")
    /\ LET task == tasks.handleFile[1]
       IN  /\ duck' = Settle(duck, "handleFile", "inference")
           /\ IF ~ok
              THEN /\ ui' = HandleFileFailed(ui, "Upload failed")
                   /\ tasks' = [tasks EXCEPT !.handleFile = Done(task, "failed")]
                   /\ UNCHANGED storage
              ELSE IF ColumnCount(task.hash) > MAX_COLUMNS
              THEN /\ ui' = HandleFileFailed(ui, "Too many columns")
                   /\ tasks' = [tasks EXCEPT !.handleFile = Done(task, "too many columns")]
                   /\ UNCHANGED storage
              ELSE /\ ui' = [ui EXCEPT !.result = Some(task.hash), !.loading = FALSE]
                   /\ storage' = saveLastSession(
                                     saveCache(storage, task.hash, [result |-> Some(task.hash)]),
                                     task.hash)
                   /\ tasks' = [tasks EXCEPT !.handleFile = Done(task, "ingested")]
    /\ UNCHANGED <<now, pureVars>>

\* runAggregates up to its first await (the Run button is rendered with a
\* result and disabled while loading or aggLoading).
RunAggregates ==
    /\ tasks.events < MaxEvents
    /\ ui.result # Null /\ ~ui.loading /\ ~ui.aggLoading
    /\ IF ~ui.conn
       THEN /\ tasks' = [Handled("runAggregates", Null) EXCEPT
                            !.runAggregates = Some([pc |-> "done", outcome |-> "returned"])]
            /\ UNCHANGED <<ui, duck>>
       ELSE /\ ui' = [ui EXCEPT !.aggLoading = TRUE, !.error = Null]
            /\ duck' = Issue(duck, "runAggregates", "view")
            /\ tasks' = [Handled("runAggregates", Null) EXCEPT
                            !.runAggregates = Some([pc |-> "materializing", outcome |-> Null,
                                                    result |-> ui.result[1], fileHash |-> ui.fileHash,
                                                    chatMessages |-> ui.chatMessages, query |-> 0,
                                                    view |-> Null, refreshed |-> Null])]
    /\ UNCHANGED <<storage, now, pureVars>>

\* A catch block that also withdrew the displayed aggregates.
AggregatesFailedClearing(u, message) ==
    [u EXCEPT !.error = Some(message), !.aggLoading = FALSE, !.agg = Null, !.aggView = Null]

\* The catch and finally blocks of runAggregates.
AggregatesFailed(u, message) == [u EXCEPT !.error = Some(message), !.aggLoading = FALSE]

\* materializeCleanedView of runAggregates has settled; getSummary follows.
\* The view is a SELECT over "data": without that table the statement fails.
AggregatesMaterialized(ok) ==
    /\ At(tasks.runAggregates, "materializing")
    /\ ok => duck.table # Null
    /\ LET task == tasks.runAggregates[1]
           settled == Settle(duck, "runAggregates", "view")
       IN  IF ok
           THEN /\ duck' = Issue([settled EXCEPT !.cleaned = Some(task.result)],
                                 "runAggregates", "aggregate")
                /\ tasks' = [tasks EXCEPT !.runAggregates =
                                Some([task EXCEPT !.pc = "querying", !.query = 1])]
                /\ UNCHANGED ui
           ELSE /\ duck' = settled
                /\ ui' = AggregatesFailed(ui, "Aggregations failed")
                /\ tasks' = [tasks EXCEPT !.runAggregates = Done(task, "failed")]
    /\ UNCHANGED <<storage, now, pureVars>>

\* The end of runAggregates: the session is persisted under the fileHash of
\* the render the run started from.
AggregatesPersisted(u, task, view, refreshed) ==
    IF task.fileHash = Null
    THEN /\ ui' = [u EXCEPT !.aggLoading = FALSE]
         /\ UNCHANGED storage
    ELSE LET entries == UpdatedHistory(u.history, task.fileHash[1], Some(refreshed))
             payload == [result |-> Some(task.result), agg |-> Some(view),
                         chatMessages |-> Some(task.chatMessages),
                         lastRefreshed |-> Some(refreshed)]
         IN  /\ ui' = [u EXCEPT !.history = entries, !.selectedHash = task.fileHash,
                                !.aggLoading = FALSE]
             /\ storage' = [persistSession(storage, task.fileHash, payload) EXCEPT
                               !.history = entries]

\* One aggregate query has settled: the next one is sent, or, after the last,
\* the bundle is displayed and fetchInsights is called.
AggregateQueried(ok) ==
    /\ At(tasks.runAggregates, "querying")
    /\ ok => duck.table # Null
    /\ LET task == tasks.runAggregates[1]
           settled == Settle(duck, "runAggregates", "aggregate")
           view == [result |-> task.result, table |-> duck.table]
           shown == [ui EXCEPT !.agg = Some(view), !.aggView = Some(view),
                               !.lastRefreshed = Some(now)]
       IN  IF ~ok
           THEN /\ duck' = settled
                /\ ui' = AggregatesFailed(ui, "Aggregations failed")
                /\ tasks' = [tasks EXCEPT !.runAggregates = Done(task, "failed")]
                /\ UNCHANGED <<storage, now>>
           ELSE IF task.query < Len(AggregateQueries)
           THEN /\ tasks' = [tasks EXCEPT !.runAggregates = Some([task EXCEPT !.query = @ + 1])]
                /\ UNCHANGED <<ui, duck, storage, now>>
           ELSE /\ duck' = settled
                /\ now' = now + 1
                /\ IF ui.llmEnabled
                   THEN /\ ui' = shown
                        /\ tasks' = [tasks EXCEPT !.runAggregates =
                                        Some([task EXCEPT !.pc = "insights", !.view = Some(view),
                                                          !.refreshed = Some(now)])]
                        /\ UNCHANGED storage
                   ELSE /\ AggregatesPersisted(shown, task, view, now)
                        /\ tasks' = [tasks EXCEPT !.runAggregates = Done(task, "refreshed")]
    /\ UNCHANGED pureVars

\* The request of fetchInsights has settled (its failures are caught inside).
InsightsFetched ==
    /\ At(tasks.runAggregates, "insights")
    /\ LET task == tasks.runAggregates[1]
       IN  /\ AggregatesPersisted(ui, task, task.view[1], task.refreshed[1])
           /\ tasks' = [tasks EXCEPT !.runAggregates = Done(task, "refreshed")]
    /\ UNCHANGED <<duck, now, pureVars>>

\* The runChat calls the model follows: a call, and one more started while it
\* is in progress.
ChatCalls == <<"runChat", "runChatAgain">>

\* A question is typed and sent (the Enter key calls onSend whatever
\* chatLoading is): runChat up to its first await. The call takes the first
\* free place of ChatCalls.
RunChat(slot) ==
    /\ tasks.events < MaxEvents
    /\ ui.result # Null
    /\ tasks[slot] = Null \/ At(tasks[slot], "done")
    /\ slot = ChatCalls[1] \/ ~(tasks[ChatCalls[1]] = Null \/ At(tasks[ChatCalls[1]], "done"))
    /\ LET typed == [ui EXCEPT !.chatInput = TRUE]
           call == [pc |-> "done", outcome |-> Null, fileHash |-> ui.fileHash,
                    result |-> ui.result]
       IN  IF ~ui.conn \/ ui.aggView = Null
           THEN /\ ui' = typed
                /\ tasks' = [Handled("runChat", Null) EXCEPT
                                ![slot] = Some([call EXCEPT !.outcome = "returned"])]
                /\ UNCHANGED duck
           ELSE IF ~ui.llmEnabled
           THEN /\ ui' = [typed EXCEPT !.chatError = Some("LLM disabled"), !.chatLoading = FALSE]
                /\ tasks' = [Handled("runChat", Null) EXCEPT
                                ![slot] = Some([call EXCEPT !.outcome = "failed"])]
                /\ UNCHANGED duck
           ELSE /\ ui' = [typed EXCEPT !.chatError = Null, !.chatLoading = TRUE]
                /\ duck' = Issue(duck, slot, "view")
                /\ tasks' = [Handled("runChat", Null) EXCEPT
                                ![slot] = Some([call EXCEPT !.pc = "materializing"])]
    /\ UNCHANGED <<storage, now, pureVars>>

\* The catch and finally blocks of runChat.
ChatFailed(u, message) == [u EXCEPT !.chatError = Some(message), !.chatLoading = FALSE]

\* materializeCleanedView of runChat has settled; routeChatQuestion's query
\* follows.
ChatMaterialized(slot, ok) ==
    /\ At(tasks[slot], "materializing")
    /\ ok => duck.table # Null
    /\ LET task == tasks[slot][1]
           settled == Settle(duck, slot, "view")
       IN  IF ok
           THEN /\ duck' = Issue([settled EXCEPT !.cleaned = task.result], slot, "chat")
                /\ tasks' = [tasks EXCEPT ![slot] = Some([task EXCEPT !.pc = "querying"])]
                /\ UNCHANGED ui
           ELSE /\ duck' = settled
                /\ ui' = ChatFailed(ui, "chat failed")
                /\ tasks' = [tasks EXCEPT ![slot] = Done(task, "failed")]
    /\ UNCHANGED <<storage, now, pureVars>>

\* routeChatQuestion's query has settled; the request to /api/chat follows.
ChatQueried(slot, ok) ==
    /\ At(tasks[slot], "querying")
    /\ ok => duck.table # Null
    /\ LET task == tasks[slot][1]
       IN  /\ duck' = Settle(duck, slot, "chat")
           /\ IF ok
              THEN /\ tasks' = [tasks EXCEPT ![slot] = Some([task EXCEPT !.pc = "asking"])]
                   /\ UNCHANGED ui
              ELSE /\ ui' = ChatFailed(ui, "chat failed")
                   /\ tasks' = [tasks EXCEPT ![slot] = Done(task, "failed")]
    /\ UNCHANGED <<storage, now, pureVars>>

\* The request to /api/chat has settled: on success one user message and one
\* assistant message are appended (chatMessages counts such pairs).
ChatAnswered(slot, ok) ==
    /\ At(tasks[slot], "asking")
    /\ LET task == tasks[slot][1]
           next == ui.chatMessages + 1
       IN  IF ok
           THEN /\ ui' = [ui EXCEPT !.chatMessages = next, !.chatInput = FALSE,
                                    !.chatLoading = FALSE]
                /\ storage' = persistSession(storage, task.fileHash, [chatMessages |-> Some(next)])
                /\ tasks' = [tasks EXCEPT ![slot] = Done(task, "answered")]
           ELSE /\ ui' = ChatFailed(ui, "chat error")
                /\ tasks' = [tasks EXCEPT ![slot] = Done(task, "failed")]
                /\ UNCHANGED storage
    /\ UNCHANGED <<duck, now, pureVars>>

\* A click on the i-th entry of the history list.
RestoreFromHistory(i) ==
    /\ tasks.events < MaxEvents
    /\ LET entry == ui.history[i]
           cached == loadCache(storage, entry.hash)
       IN  /\ tasks' = Handled("restoreFromHistory", Some(entry.hash))
           /\ IF cached = Null
              THEN UNCHANGED <<ui, storage>>
              ELSE LET lastRefreshed == IF entry.lastRefreshed # Null THEN entry.lastRefreshed
                                        ELSE cached[1].lastRefreshed
                       entries == UpdatedHistory(ui.history, entry.hash, lastRefreshed)
                   IN  /\ ui' = [RestoredSession(ui, entry.hash, cached[1], lastRefreshed)
                                    EXCEPT !.history = entries]
                       /\ storage' = saveLastSession([storage EXCEPT !.history = entries],
                                                     entry.hash)
    /\ UNCHANGED <<duck, now, pureVars>>

\* The Clear button, disabled while the history is empty.
ClearHistory ==
    /\ tasks.events < MaxEvents
    /\ ui.history # <<>>
    /\ storage' = [storage EXCEPT !.history = <<>>, !.last = Null]
    /\ ui' = [ui EXCEPT !.history = <<>>, !.selectedHash = Null]
    /\ tasks' = Handled("clearHistory", Null)
    /\ UNCHANGED <<duck, now, pureVars>>

\* The Delete button of the history entry of the hash.
DeleteHistoryEntry(hash) ==
    /\ tasks.events < MaxEvents
    /\ \E i \in 1..Len(ui.history) : ui.history[i].hash = hash
    /\ LET next == RemoveEntry(ui.history, hash)
       IN  /\ storage' = [storage EXCEPT !.cache[hash] = Null, !.history = next,
                                         !.last = IF @ = Some(hash) THEN Null ELSE @]
           /\ ui' = [ui EXCEPT !.history = next,
                               !.selectedHash = IF @ = Some(hash) THEN Null ELSE @]
    /\ tasks' = Handled("deleteHistoryEntry", Some(hash))
    /\ UNCHANGED <<duck, now, pureVars>>

\* localStorage as an earlier visit that analysed the files left it.
RECURSIVE StorageAfter(_)
StorageAfter(hashes) ==
    IF hashes = <<>> THEN EmptyStorage
    ELSE LET hash == hashes[Len(hashes)]
             before == StorageAfter(SubSeq(hashes, 1, Len(hashes) - 1))
             payload == [result |-> Some(hash),
                         agg |-> Some([result |-> hash, table |-> Some(hash)]),
                         chatMessages |-> Some(0), lastRefreshed |-> Some(0)]
         IN  [persistSession(before, Some(hash), payload) EXCEPT
                 !.history = UpdatedHistory(before.history, hash, Some(0))]

StoredSessions == {StorageAfter(<<>>), StorageAfter(<<"h1">>), StorageAfter(<<"h1", "h2">>)}

InitUpload ==
    /\ MapperIdle
    /\ RouterIdle
    /\ data = <<>>
    /\ columnMap = <<>>
    /\ today = 0
    /\ cleanedView = Null
    /\ materializations = 0
    /\ RouteIdle
    /\ NoArguments
    /\ summary = Null
    /\ growth = Null
    /\ anomalies = Null
    /\ builtMap = Null
    /\ timeseries = Null
    /\ products = Null
    /\ chatTable = Null
    /\ storage \in StoredSessions
    /\ \E enabled \in BOOLEAN : ui = [Mounted(storage) EXCEPT !.llmEnabled = enabled]
    /\ duck = NoStatements
    /\ tasks = NoTasks
    /\ now = 1

NextUpload ==
    \/ \E hash \in FileHashes : HandleFile(hash)
    \/ HandleFileHashed
    \/ \E ok \in BOOLEAN : HandleFileConnected(ok)
    \/ \E ok \in BOOLEAN : HandleFileCreated(ok)
    \/ \E ok \in BOOLEAN : HandleFileInferred(ok)
    \/ RunAggregates
    \/ \E ok \in BOOLEAN : AggregatesMaterialized(ok)
    \/ \E ok \in BOOLEAN : AggregateQueried(ok)
    \/ InsightsFetched
    \/ \E slot \in Range(ChatCalls) : RunChat(slot)
    \/ \E slot \in Range(ChatCalls), ok \in BOOLEAN : ChatMaterialized(slot, ok)
    \/ \E slot \in Range(ChatCalls), ok \in BOOLEAN : ChatQueried(slot, ok)
    \/ \E slot \in Range(ChatCalls), ok \in BOOLEAN : ChatAnswered(slot, ok)
    \/ \E i \in 1..Len(ui.history) : RestoreFromHistory(i)
    \/ ClearHistory
    \/ \E hash \in FileHashes : DeleteHistoryEntry(hash)

SpecUpload == InitUpload /\ [][NextUpload]_vars

\* ------------------------------------------------ upload API route: POST

\* The state outside the route.
routeFrame == <<componentVars, mapperVars, routerVars, inputVars, viewVars, resultVars>>

\* return NextResponse.json(body, { status }): the request is over.
Respond(p, status, error) ==
    [p EXCEPT !.pc = "idle", !.served = @ + 1,
              !.response = Some([status |-> status, error |-> error])]

\* The catch block of POST: status 500 with err?.message ?? "server error".
\* It does not touch the connection.
Caught(p, message) == Respond(p, 500, Some(message))

\* The statements POST awaits on the connection after the column check, in
\* order; the date query is issued only when a timestamp column was found.
RouteQueries(p) ==
    <<"count", "preview">> \o (IF p.hasTimestamp THEN <<"dates">> ELSE <<>>) \o <<"distinct">>

\* POST up to "const db = await getDuckDB()": the form is read and the file
\* checked.
Post(file, tooMany, hasTimestamp) ==
    /\ post.pc = "idle"
    /\ post.served < MaxRequests
    /\ LET p == [post EXCEPT !.conn = "none", !.response = Null,
                             !.tooMany = tooMany, !.hasTimestamp = hasTimestamp]
       IN  post' = CASE file = "unreadable" -> Caught(p, "formData failed")
                     [] file = "missing" -> Respond(p, 400, Some("file is required"))
                     [] file = "too large" -> Respond(p, 413, Some("file too large"))
                     [] OTHER -> [p EXCEPT !.pc = "connect"]
    /\ UNCHANGED routeFrame

\* getDuckDB() and db.connect().
PostConnected(ok) ==
    /\ post.pc = "connect"
    /\ post' = IF ok THEN [post EXCEPT !.pc = "register", !.conn = "open", !.open = @ + 1]
               ELSE Caught(post, "connect failed")
    /\ UNCHANGED routeFrame

\* db.registerFileBuffer(filename, bytes).
PostRegistered(ok) ==
    /\ post.pc = "register"
    /\ post' = IF ok THEN [post EXCEPT !.pc = "create"] ELSE Caught(post, "register failed")
    /\ UNCHANGED routeFrame

\* withTimeout(conn.query(createSql), INGEST_TIMEOUT_MS): the query resolves,
\* rejects, or the timer rejects first with "Ingestion timed out".
PostCreated(outcome) ==
    /\ post.pc = "create"
    /\ post' = CASE outcome = "ok" -> [post EXCEPT !.pc = "schema"]
                 [] outcome = "failed" -> Caught(post, "query failed")
                 [] OTHER -> Caught(post, "Ingestion timed out")
    /\ UNCHANGED routeFrame

\* PRAGMA table_info('data') and the column check: too many columns close
\* the connection and answer 400.
PostSchemaRead(ok) ==
    /\ post.pc = "schema"
    /\ post' = IF ~ok THEN Caught(post, "query failed")
               ELSE IF post.tooMany
               THEN Respond([post EXCEPT !.conn = "closed", !.open = @ - 1],
                            400, Some("too many columns"))
               ELSE [post EXCEPT !.pc = RouteQueries(post)[1]]
    /\ UNCHANGED routeFrame

\* One of the count, preview, date-range and distinct-count statements.
PostQueried(ok) ==
    /\ \E i \in DOMAIN RouteQueries(post) :
          /\ post.pc = RouteQueries(post)[i]
          /\ post' = IF ~ok THEN Caught(post, "query failed")
                     ELSE [post EXCEPT !.pc = IF i < Len(RouteQueries(post))
                                              THEN RouteQueries(post)[i + 1] ELSE "close"]
    /\ UNCHANGED routeFrame

\* conn.close() and the response with the schema and the preview rows.
PostClosed ==
    /\ post.pc = "close"
    /\ post' = Respond([post EXCEPT !.conn = "closed", !.open = @ - 1], 200, Null)
    /\ UNCHANGED routeFrame

RouteFiles == {"unreadable", "missing", "too large", "csv"}

IngestOutcomes == {"ok", "failed", "timed out"}

InitRoute ==
    /\ MapperIdle
    /\ RouterIdle
    /\ AnalyticsIdle

NextRoute ==
    \/ \E file \in RouteFiles, tooMany \in BOOLEAN, hasTimestamp \in BOOLEAN :
          Post(file, tooMany, hasTimestamp)
    \/ \E ok \in BOOLEAN : PostConnected(ok)
    \/ \E ok \in BOOLEAN : PostRegistered(ok)
    \/ \E outcome \in IngestOutcomes : PostCreated(outcome)
    \/ \E ok \in BOOLEAN : PostSchemaRead(ok)
    \/ \E ok \in BOOLEAN : PostQueried(ok)
    \/ PostClosed

SpecRoute == InitRoute /\ [][NextRoute]_vars

\* ------------------------------------------------------------------ claims

\* The precedence order the mapper is specified to follow.
ClaimedRuleOrder ==
    <<"order_id", "product", "timestamp", "quantity", "price", "revenue",
      "channel", "city", "state", "zip">>

\* The field the specification assigns to a name: that of the first rule, in
\* the claimed order, whose pattern matches the lowercased, trimmed name.
FirstMatchingField(name) ==
    LET lower == Trim(ToLowerCase(name))
        hits == {i \in DOMAIN ClaimedRuleOrder : RuleMatches(ClaimedRuleOrder[i], lower)}
    IN  IF hits = {} THEN Null
        ELSE Some(ClaimedRuleOrder[CHOOSE i \in hits : \A j \in hits : i <= j])

\* C1: for every raw column name, both copies of inferCanonical return the
\* field of the first rule, in the order order_id, product, timestamp,
\* quantity, price, revenue, channel, city, state, zip, whose pattern matches
\* the lowercased, trimmed name, and no field when none matches;
\* "order_date" yields order_id.
C1_FirstMatchWins ==
    inference # NoInference =>
        /\ inference.component[1].canonicalName = FirstMatchingField(colName)
        /\ inference.route[1].canonicalName = FirstMatchingField(colName)
        /\ inference.component[1].originalName = colName
        /\ (colName = OrderDateName =>
                inference.component[1].canonicalName = Some("order_id"))

\* C1's case: "order_date", which matches the order_id and the timestamp
\* patterns, has been classified.
C1_Witness ==
    /\ colName = OrderDateName
    /\ inference # NoInference
    /\ RuleMatches("timestamp", Trim(ToLowerCase(colName)))
    /\ RuleMatches("order_id", Trim(ToLowerCase(colName)))

\* The template the specification assigns to a question: the first of its
\* seven ordered rules that holds on the lowercased text.
ClaimedTemplate(q) ==
    LET text == ToLowerCase(q)
        has(w) == Includes(text, w)
        rules == <<
            has(<<"t","o","p">>) /\ has(<<"p","r","o","d","u","c","t">>),
            has(<<"c","h","a","n","n","e","l">>),
            has(<<"s","t","a","t","e">>) \/ has(<<"c","i","t","y">>) \/ has(<<"g","e","o">>),
            has(<<"a","n","o","m","a","l","y">>) \/ has(<<"o","u","t","l","i","e","r">>),
            has(<<"m","o","m">>) \/ has(<<"m","o","n","t","h">>) \/ has(<<"g","r","o","w","t","h">>),
            has(<<"y","o","y">>) \/ has(<<"y","e","a","r">>),
            TRUE >>
        names == <<"top_products", "channels", "geo", "anomalies",
                   "mom_growth", "yoy_growth", "summary">>
        first == CHOOSE i \in DOMAIN rules : rules[i] /\ \A j \in 1..(i - 1) : ~rules[j]
    IN  names[first]

\* C3: for every question, routeChatQuestion selects the template of the
\* first rule that holds on the lowercased text, in the order top_products,
\* channels, geo, anomalies, mom_growth, yoy_growth, summary; "what are my
\* top products by channel" routes to top_products.
C3_RouterFirstMatch ==
    chat # Null =>
        /\ chat[1].template = ClaimedTemplate(question)
        /\ (question = TopProductsByChannel => chat[1].template = "top_products")

\* C3's case: the example question, which satisfies rule 1 and rule 2, has
\* been routed.
C3_Witness ==
    /\ question = TopProductsByChannel
    /\ chat # Null
    /\ Includes(ToLowerCase(question), <<"c","h","a","n","n","e","l">>)

\* The per-day revenue totals of a cleaned relation, as the claims speak of
\* them: for each day that holds a row with a timestamp, the sum of the
\* non-NULL revenues of its rows (NULL when it has none).
ClaimedDailyTotals(cleaned) ==
    LET dated == SelectSeq(cleaned, LAMBDA r : r.ts # Null)
        days == {DayOf(dated[i].ts[1]) : i \in DOMAIN dated}
    IN  [d \in days |->
            SqlSum(Column(SelectSeq(dated, LAMBDA r : DayOf(r.ts[1]) = d), "revenue"))]

RECURSIVE SumOver(_, _)
SumOver(S, f) ==
    IF S = {} THEN 0
    ELSE LET x == CHOOSE y \in S : TRUE IN f[x] + SumOver(S \ {x}, f)

\* Over the days that have a total: their number n, for each the deviation
\* n * total - sum, and the sum of the squared deviations, which is
\* n^2 (n - 1) times the sample variance.
ClaimedStats(totals) ==
    LET have == {d \in DOMAIN totals : totals[d] # Null}
        n == Cardinality(have)
        sum == SumOver(have, [d \in have |-> totals[d][1]])
        dev == [d \in have |-> n * totals[d][1] - sum]
    IN  [days |-> have, n |-> n, dev |-> dev,
         squares |-> SumOver(have, [d \in have |-> dev[d] * dev[d]])]

\* The z-score of a day is defined when the day has a total, at least two
\* days have one and the totals are not all equal; its square is then
\* dev^2 (n - 1) / squares.
ZDefined(st, day) == day \in st.days /\ st.n >= 2 /\ st.squares > 0

ZSquareNum(st, day) == st.dev[day] * st.dev[day] * (st.n - 1)

ClaimedAbove2(st, day) == ZDefined(st, day) /\ ZSquareNum(st, day) > 4 * st.squares

RECURSIVE Gcd(_, _)
Gcd(a, b) == IF b = 0 THEN a ELSE Gcd(b, a % b)

\* The quotient num / den of two positive numbers in lowest terms.
Reduced(num, den) == <<num \div Gcd(num, den), den \div Gcd(num, den)>>

\* The daily totals are 100, 100, 100, 100 and 1000 over five distinct days,
\* the 1000 on the last of them.
IsExampleSeries(totals) ==
    /\ Cardinality(DOMAIN totals) = 5
    /\ \E last \in DOMAIN totals :
        /\ \A d \in DOMAIN totals : d <= last
        /\ totals[last] = Some(1000)
        /\ \A d \in DOMAIN totals \ {last} : totals[d] = Some(100)

LastDay(totals) == CHOOSE last \in DOMAIN totals : \A d \in DOMAIN totals : d <= last

\* C2 as stated: for daily totals 100, 100, 100, 100, 1000 getAnomalies
\* returns a list that contains the final day with a positive z-score.
C2_ExampleFlagged ==
    (cleanedView # Null /\ anomalies # Null) =>
        LET totals == ClaimedDailyTotals(Cleaned)
        IN  IsExampleSeries(totals) =>
                \E i \in DOMAIN anomalies[1] :
                    /\ anomalies[1][i].date = LastDay(totals) * SecondsPerDay
                    /\ anomalies[1][i].zscore # Null
                    /\ anomalies[1][i].zscore[1].sign = 1

\* C2 as amended: for daily totals 100, 100, 100, 100, 1000 getAnomalies
\* returns the empty list; the final day's z-score is positive but its
\* square, 16/5, does not exceed 4.
C2_ExampleNotFlagged ==
    (cleanedView # Null /\ anomalies # Null) =>
        LET totals == ClaimedDailyTotals(Cleaned)
            st == ClaimedStats(totals)
        IN  IsExampleSeries(totals) =>
                /\ anomalies[1] = <<>>
                /\ st.dev[LastDay(totals)] > 0
                /\ Reduced(ZSquareNum(st, LastDay(totals)), st.squares) = <<16, 5>>

\* C2's case: getAnomalies has run over the example series, here with the
\* first day's total in two rows.
C2_Witness ==
    /\ cleanedView # Null
    /\ anomalies # Null
    /\ IsExampleSeries(ClaimedDailyTotals(Cleaned))
    /\ Len(data) = 6

\* The revenue cell the specification assigns to a raw row under a ColumnMap.
ClaimedRevenue(row, mapping) ==
    IF "revenue" \in DOMAIN mapping THEN TryCastDouble(row[mapping["revenue"]])
    ELSE IF "price" \in DOMAIN mapping /\ "quantity" \in DOMAIN mapping
    THEN LET p == TryCastDouble(row[mapping["price"]])
             q == TryCastDouble(row[mapping["quantity"]])
         IN  IF p = Null \/ q = Null THEN Null ELSE Some(p[1] * q[1])
    ELSE Null

\* C4: in every row of cleaned, revenue is the numeric cast of the mapped
\* revenue column when one is mapped, whatever price and quantity are; else
\* the product of the numeric casts of the mapped price and quantity columns
\* when both are mapped; else NULL.
C4_RevenueRule ==
    cleanedView # Null =>
        /\ Len(Cleaned) = Len(data)
        /\ \A i \in DOMAIN data :
            Cleaned[i].revenue = ClaimedRevenue(data[i], cleanedView[1])

\* C4's case: the view is built from a map with revenue, price and quantity
\* all mapped, over a row where the revenue column and price * quantity
\* differ.
C4_Witness ==
    /\ cleanedView # Null
    /\ {"revenue", "price", "quantity"} \subseteq DOMAIN cleanedView[1]
    /\ \E i \in DOMAIN data :
        /\ Cleaned[i].revenue = Some(2)
        /\ SqlTimes(Cleaned[i].price, Cleaned[i].quantity) = Some(0 - 6)

\* The canonical field each cleaned column other than revenue stands for.
FieldOfColumn ==
    [order_id |-> "order_id", product |-> "product", ts |-> "timestamp",
     quantity |-> "quantity", price |-> "price", channel |-> "channel",
     city |-> "city", state |-> "state", zip |-> "zip"]

\* C5 as stated: a cleaned column whose canonical field has no entry in the
\* ColumnMap is NULL in every row; ts is NULL in every row whenever the map
\* has no timestamp entry.
C5_UnmappedIsNull ==
    cleanedView # Null =>
        \A c \in DOMAIN FieldOfColumn :
            FieldOfColumn[c] \notin DOMAIN cleanedView[1] =>
                \A i \in DOMAIN Cleaned : Cleaned[i][c] = Null

\* C6 as stated: hasDate is true exactly when some row has a non-NULL ts,
\* and the growth query is issued exactly when hasDate is true.
C6_HasDateIffSomeTs ==
    (cleanedView # Null /\ summary # Null) =>
        /\ summary[1].hasDate <=> (\E i \in DOMAIN Cleaned : Cleaned[i].ts # Null)
        /\ growth # Null <=> summary[1].hasDate

\* The sum of the daily totals of the days d with lo <= d < hi.
ClaimedBucket(totals, lo, hi) ==
    LET days == {d \in DOMAIN totals : totals[d] # Null /\ lo <= d /\ d < hi}
    IN  SumOver(days, [d \in days |-> totals[d][1]])

\* C7 as stated: this_month is the revenue of exactly the days of the
\* calendar month of the evaluation date, prev_month that of the month before
\* it, and likewise this_year and prev_year for the calendar years.
C7_CalendarBuckets ==
    (cleanedView # Null /\ growth # Null) =>
        LET totals == ClaimedDailyTotals(Cleaned)
            c == CivilFromDays(today)
            month == DaysFromCivil(c.year, c.month, 1)
            nextMonth == month + DaysInMonth(c.year, c.month)
            prevMonth == IF c.month = 1 THEN DaysFromCivil(c.year - 1, 12, 1)
                         ELSE DaysFromCivil(c.year, c.month - 1, 1)
            year == DaysFromCivil(c.year, 1, 1)
        IN  /\ Coalesce(growth[1].this_month, Some(0))[1] = ClaimedBucket(totals, month, nextMonth)
            /\ Coalesce(growth[1].prev_month, Some(0))[1] = ClaimedBucket(totals, prevMonth, month)
            /\ Coalesce(growth[1].this_year, Some(0))[1]
                    = ClaimedBucket(totals, year, DaysFromCivil(c.year + 1, 1, 1))
            /\ Coalesce(growth[1].prev_year, Some(0))[1]
                    = ClaimedBucket(totals, DaysFromCivil(c.year - 1, 1, 1), year)

\* pct is the growth figure the specification derives from the current and
\* the previous value: null when the previous value is zero or absent, else
\* (current - previous) / previous with an absent current counted as 0.
IsGrowthOf(pct, current, previous) ==
    IF previous = Null THEN pct = Null
    ELSE IF previous[1] = 0 THEN pct = Null
    ELSE /\ pct # Null
         /\ pct[1].den # 0
         /\ pct[1].num * previous[1]
                = ((IF current = Null THEN 0 ELSE current[1]) - previous[1]) * pct[1].den

\* C8: with hasDate true, momGrowthPct is null exactly when prev_month is zero
\* or absent and else (this_month - prev_month) / prev_month, and yoyGrowthPct
\* likewise from this_year and prev_year; with hasDate false both are null.
C8_GrowthPct ==
    (cleanedView # Null /\ summary # Null) =>
        IF summary[1].hasDate
        THEN /\ growth # Null
             /\ IsGrowthOf(summary[1].momGrowthPct, growth[1].this_month, growth[1].prev_month)
             /\ IsGrowthOf(summary[1].yoyGrowthPct, growth[1].this_year, growth[1].prev_year)
        ELSE summary[1].momGrowthPct = Null /\ summary[1].yoyGrowthPct = Null

\* C8's case: a summary with a month-over-month figure that is a number and
\* a year-over-year figure that is null because prev_year is zero.
C8_Witness ==
    /\ summary # Null
    /\ summary[1].hasDate
    /\ summary[1].momGrowthPct # Null
    /\ summary[1].yoyGrowthPct = Null
    /\ growth[1].prev_year = Some(0)

\* C9: getAnomalies returns exactly the days whose z-score exceeds 2 in
\* absolute value, each once, with its total and its z-score, in
\* non-increasing order of the absolute z-score; and nothing when fewer than
\* two days are there or all daily totals are equal.
C9_AnomaliesExact ==
    (cleanedView # Null /\ anomalies # Null) =>
        LET rows == anomalies[1]
            totals == ClaimedDailyTotals(Cleaned)
            st == ClaimedStats(totals)
            day(i) == rows[i].date \div SecondsPerDay
        IN  /\ \A i \in DOMAIN rows :
                  /\ rows[i].date % SecondsPerDay = 0
                  /\ ClaimedAbove2(st, day(i))
                  /\ rows[i].revenue = totals[day(i)]
                  /\ rows[i].zscore # Null
                  /\ rows[i].zscore[1].sign * st.dev[day(i)] > 0
                  /\ Reduced(rows[i].zscore[1].sqNum, rows[i].zscore[1].sqDen)
                        = Reduced(ZSquareNum(st, day(i)), st.squares)
            /\ \A d \in DOMAIN totals : ClaimedAbove2(st, d) =>
                  \E i \in DOMAIN rows : rows[i].date = d * SecondsPerDay
            /\ \A i, j \in DOMAIN rows : i # j => rows[i].date # rows[j].date
            /\ \A i, j \in DOMAIN rows : i < j =>
                  ZSquareNum(st, day(i)) >= ZSquareNum(st, day(j))
            /\ (Cardinality(DOMAIN totals) < 2 => rows = <<>>)
            /\ ((\A d, e \in st.days : totals[d] = totals[e]) => rows = <<>>)

\* C9's case: two days are returned, the one with the larger absolute
\* z-score first, while other days are left out.
C9_Witness ==
    /\ cleanedView # Null
    /\ anomalies # Null
    /\ Len(anomalies[1]) = 2
    /\ anomalies[1][1].zscore[1].sqNum > anomalies[1][2].zscore[1].sqNum
    /\ anomalies[1][1].zscore[1].sign = 1
    /\ Len(data) > 2

\* C10: over a cleaned relation with no rows getSummary returns totalRevenue,
\* totalQuantity, minDate and maxDate absent, hasDate false and both growth
\* figures null, and does not issue the growth query.
C10_EmptySummary ==
    (cleanedView # Null /\ summary # Null /\ Len(Cleaned) = 0) =>
        /\ summary[1].totalRevenue = Null
        /\ summary[1].totalQuantity = Null
        /\ summary[1].minDate = Null
        /\ summary[1].maxDate = Null
        /\ summary[1].hasDate = FALSE
        /\ summary[1].momGrowthPct = Null
        /\ summary[1].yoyGrowthPct = Null
        /\ growth = Null

\* C10's case: getSummary has run over the view of an empty table.
C10_Witness ==
    /\ cleanedView # Null
    /\ summary # Null
    /\ data = <<>>

\* The last column of the list whose canonicalName is the field, 0 if none.
LastColumnOf(columns, field) ==
    LET claimed == {i \in DOMAIN columns : columns[i].canonicalName = Some(field)}
    IN  IF claimed = {} THEN 0 ELSE CHOOSE i \in claimed : \A j \in claimed : j <= i

\* C11: buildColumnMap maps each canonical field to the originalName of the
\* last column of the list whose canonicalName is that field, and has no
\* entry for a field no column claims; columns without a canonicalName
\* contribute nothing.
C11_LastColumnWins ==
    builtMap # Null =>
        /\ DOMAIN builtMap[1] \subseteq Range(CANONICAL_FIELDS)
        /\ \A field \in Range(CANONICAL_FIELDS) :
              LET last == LastColumnOf(schemaColumns, field)
              IN  IF last = 0 THEN field \notin DOMAIN builtMap[1]
                  ELSE /\ field \in DOMAIN builtMap[1]
                       /\ builtMap[1][field] = schemaColumns[last].originalName

\* buildColumnMap has folded a list in which two columns of different names
\* claim the same field and a third claims none.
C11_Witness ==
    /\ builtMap # Null
    /\ \E i, j, k \in DOMAIN schemaColumns :
          /\ i < j
          /\ schemaColumns[i].canonicalName = Some("product")
          /\ schemaColumns[j].canonicalName = Some("product")
          /\ schemaColumns[i].originalName # schemaColumns[j].originalName
          /\ schemaColumns[k].canonicalName = Null
    /\ "price" \notin DOMAIN builtMap[1]

\* A raw cell's text writes a number.
IsNumericText(cell) ==
    /\ cell # Null
    /\ \/ AllDigits(cell)
       \/ cell[1] = "-" /\ AllDigits(Tail(cell))

\* The cleaned columns whose expression reads the raw column c under the
\* ColumnMap: the columns of the fields mapped to c, ts when a date column is
\* c, and revenue when the revenue column, or with none mapped the price or
\* the quantity column, is c.
ColumnsReading(c, mapping) ==
    {k \in DOMAIN FieldOfColumn \ {"ts"} :
        FieldOfColumn[k] \in DOMAIN mapping /\ mapping[FieldOfColumn[k]] = c}
    \cup (IF \E f \in {"timestamp", "date", "original_column"} \cap DOMAIN mapping :
                mapping[f] = c
          THEN {"ts"} ELSE {})
    \cup (IF "revenue" \in DOMAIN mapping
          THEN (IF mapping["revenue"] = c THEN {"revenue"} ELSE {})
          ELSE IF \E f \in {"price", "quantity"} \cap DOMAIN mapping : mapping[f] = c
          THEN {"revenue"} ELSE {})

\* The sum of the numeric cells of a raw column, NULL when there is none.
RECURSIVE SumOfNumericCells(_, _)
SumOfNumericCells(table, c) ==
    IF Len(table) = 0 THEN Null
    ELSE LET rest == SumOfNumericCells(Tail(table), c)
             cell == Head(table)[c]
         IN  IF ~IsNumericText(cell) THEN rest
             ELSE IF rest = Null THEN TryCastDouble(cell)
             ELSE Some(TryCastDouble(cell)[1] + rest[1])

ClaimedSum(cleaned, idx, column) ==
    LET have == {i \in idx : cleaned[i][column] # Null}
    IN  IF have = {} THEN Null
        ELSE Some(SumOver(have, [i \in have |-> cleaned[i][column][1]]))

\* The calendar month of a timestamp, as <<year, month>>.
ClaimedMonth(ts) ==
    LET c == CivilFromDays(ts \div SecondsPerDay) IN <<c.year, c.month>>

\* C16: the daily series has one bucket per distinct day and the monthly
\* series one per distinct month among the rows with a timestamp; a bucket's
\* revenue and quantity are the sums over its rows; the buckets are in
\* strictly ascending order; a row without a timestamp is in no bucket; and
\* rows on 2024-01-01, 2024-01-01 and 2024-02-01 give 2 daily and 2 monthly
\* buckets.
C16_TimeseriesBuckets ==
    (cleanedView # Null /\ timeseries # Null) =>
        LET cleaned == Cleaned
            dated == {i \in DOMAIN cleaned : cleaned[i].ts # Null}
            days == {cleaned[i].ts[1] \div SecondsPerDay : i \in dated}
            months == {ClaimedMonth(cleaned[i].ts[1]) : i \in dated}
            daily == timeseries[1].daily
            monthly == timeseries[1].monthly
            jan1 == DaysFromCivil(2024, 1, 1)
            feb1 == DaysFromCivil(2024, 2, 1)
        IN  /\ Len(daily) = Cardinality(days)
            /\ Len(monthly) = Cardinality(months)
            /\ \A n \in DOMAIN daily :
                  LET rows == {i \in dated :
                                  cleaned[i].ts[1] \div SecondsPerDay
                                      = daily[n].date \div SecondsPerDay}
                  IN  /\ rows # {}
                      /\ daily[n].date % SecondsPerDay = 0
                      /\ daily[n].revenue = ClaimedSum(cleaned, rows, "revenue")
                      /\ daily[n].quantity = ClaimedSum(cleaned, rows, "quantity")
            /\ \A n \in DOMAIN monthly :
                  LET rows == {i \in dated :
                                  ClaimedMonth(cleaned[i].ts[1])
                                      = ClaimedMonth(monthly[n].month)}
                  IN  /\ rows # {}
                      /\ CivilFromDays(monthly[n].month \div SecondsPerDay).day = 1
                      /\ monthly[n].month % SecondsPerDay = 0
                      /\ monthly[n].revenue = ClaimedSum(cleaned, rows, "revenue")
                      /\ monthly[n].quantity = ClaimedSum(cleaned, rows, "quantity")
            /\ \A n \in 1..(Len(daily) - 1) : daily[n].date < daily[n + 1].date
            /\ \A n \in 1..(Len(monthly) - 1) : monthly[n].month < monthly[n + 1].month
            /\ (Len(cleaned) = 3 /\ dated = 1..3 /\ days = {jan1, feb1}) =>
                  Len(daily) = 2 /\ Len(monthly) = 2

\* C16's case: getTimeseries has run over three rows, two on 2024-01-01 (one
\* of them in the afternoon) and one on 2024-02-01, and returned 2 daily and
\* 2 monthly buckets, the first daily bucket summing two rows.
C16_Witness ==
    /\ cleanedView # Null
    /\ timeseries # Null
    /\ Len(data) = 3
    /\ \A i \in 1..3 : Cleaned[i].ts # Null /\ Cleaned[i].revenue = Some(5)
    /\ {Cleaned[i].ts[1] : i \in 1..3}
          = {DaysFromCivil(2024, 1, 1) * SecondsPerDay,
             DaysFromCivil(2024, 1, 1) * SecondsPerDay + 13 * 3600 + 30 * 60,
             DaysFromCivil(2024, 2, 1) * SecondsPerDay}
    /\ Len(timeseries[1].daily) = 2
    /\ Len(timeseries[1].monthly) = 2
    /\ timeseries[1].daily[1].revenue = Some(10)

\* The per-product groups as the claim speaks of them: one per distinct
\* non-NULL product, with the sums of revenue and quantity over its rows.
ClaimedProductGroups(cleaned) ==
    LET names == {cleaned[i].product[1] : i \in {n \in DOMAIN cleaned : cleaned[n].product # Null}}
    IN  { LET rows == {i \in DOMAIN cleaned : cleaned[i].product = Some(p)}
          IN  [product |-> p,
               revenue |-> ClaimedSum(cleaned, rows, "revenue"),
               quantity |-> ClaimedSum(cleaned, rows, "quantity")] : p \in names }

\* Group x may stand before group y in the requested direction (a group
\* without a revenue is not compared).
MayPrecede(x, y, order) ==
    \/ x.revenue = Null
    \/ y.revenue = Null
    \/ IF order = "asc" THEN x.revenue[1] <= y.revenue[1] ELSE y.revenue[1] <= x.revenue[1]

\* C17: getProducts returns the slice [offset, offset + limit) of the
\* per-product groups sorted by summed revenue in the requested direction:
\* its rows are distinct groups in that order, offset groups that may precede
\* them are skipped and every other omitted group may follow them; no row has
\* a NULL product; there are at most limit rows; and with no arguments the
\* limit is 10, the offset 0 and the direction descending.
C17_ProductsSlice ==
    (cleanedView # Null /\ products # Null) =>
        LET groups == ClaimedProductGroups(Cleaned)
            limit == IF productsArgs.limit = Null THEN 10 ELSE productsArgs.limit[1]
            offset == IF productsArgs.offset = Null THEN 0 ELSE productsArgs.offset[1]
            order == IF productsArgs.order = Null THEN "desc" ELSE productsArgs.order[1]
            rows == products[1]
            returned == {rows[i] : i \in DOMAIN rows}
            omitted == groups \ returned
            skipped == Min2(offset, Cardinality(groups))
        IN  /\ returned \subseteq groups
            /\ Cardinality(returned) = Len(rows)
            /\ Len(rows) <= limit
            /\ Len(rows) = Min2(limit, Cardinality(groups) - skipped)
            /\ \A i, j \in DOMAIN rows : i < j => MayPrecede(rows[i], rows[j], order)
            /\ \E before \in SUBSET omitted :
                  /\ Cardinality(before) = skipped
                  /\ \A b \in before : \A g \in groups \ before : MayPrecede(b, g, order)
                  /\ \A r \in returned : \A a \in omitted \ before : MayPrecede(r, a, order)

\* C17's case: getProducts has run with no arguments over a table of more
\* than ten products and returned ten rows, the product of the highest
\* revenue first.
C17_Witness ==
    /\ cleanedView # Null
    /\ products # Null
    /\ productsArgs = [limit |-> Null, offset |-> Null, order |-> Null]
    /\ Cardinality(ClaimedProductGroups(Cleaned)) > 10
    /\ Len(products[1]) = 10
    /\ \A g \in ClaimedProductGroups(Cleaned) : g.revenue[1] <= products[1][1].revenue[1]

\* The square of a returned row's z-score as the quotient in lowest terms,
\* and of a day's as the claims compute it.
RowZSquare(row) == Reduced(row.zscore[1].sqNum, row.zscore[1].sqDen)

ClaimedZSquare(st, day) == Reduced(ZSquareNum(st, day), st.squares)

\* |z| of x is at least |z| of y, for two days with a z-score.
ZAtLeast(st, x, y) == ZSquareNum(st, x) >= ZSquareNum(st, y)

\* C18 as stated: for the anomalies template routeChatQuestion returns
\* min(5, number of distinct days) days, in non-increasing order of |z|,
\* every one with a defined z-score.
C18_ChatAnomaliesTop5 ==
    (cleanedView # Null /\ chat # Null /\ chat[1].template = "anomalies") =>
        LET totals == ClaimedDailyTotals(Cleaned)
            st == ClaimedStats(totals)
            rows == chatTable[1]
        IN  /\ Len(rows) = Min2(5, Cardinality(DOMAIN totals))
            /\ \A i \in DOMAIN rows : rows[i].zscore # Null
            /\ \A i, j \in DOMAIN rows :
                  i < j => ZAtLeast(st, rows[i].date \div SecondsPerDay,
                                        rows[j].date \div SecondsPerDay)

\* C18 as amended: for the anomalies template routeChatQuestion returns no
\* row when fewer than two days have a revenue total; otherwise it returns
\* min(5, number of distinct days) distinct days, each with its total and its
\* z-score, with no threshold on |z|; the z-score is NULL for a day without a
\* total and for every day when all totals are equal; the returned days with
\* a z-score are in non-increasing order of |z|, and no omitted day has a
\* larger |z| than a returned one.
C18_ChatAnomaliesRows ==
    (cleanedView # Null /\ chat # Null /\ chat[1].template = "anomalies") =>
        LET totals == ClaimedDailyTotals(Cleaned)
            st == ClaimedStats(totals)
            rows == chatTable[1]
            dayOf(i) == rows[i].date \div SecondsPerDay
            returned == {dayOf(i) : i \in DOMAIN rows}
            scored == {i \in DOMAIN rows : rows[i].zscore # Null}
        IN  IF st.n < 2 THEN rows = <<>>
            ELSE /\ Len(rows) = Min2(5, Cardinality(DOMAIN totals))
                 /\ Cardinality(returned) = Len(rows)
                 /\ returned \subseteq DOMAIN totals
                 /\ \A i \in DOMAIN rows :
                       /\ rows[i].date = dayOf(i) * SecondsPerDay
                       /\ rows[i].revenue = totals[dayOf(i)]
                       /\ rows[i].zscore # Null <=> ZDefined(st, dayOf(i))
                       /\ rows[i].zscore # Null =>
                             /\ RowZSquare(rows[i]) = ClaimedZSquare(st, dayOf(i))
                             /\ rows[i].zscore[1].sign > 0 <=> st.dev[dayOf(i)] > 0
                 /\ \A i, j \in scored : i < j => ZAtLeast(st, dayOf(i), dayOf(j))
                 /\ \A i \in scored : \A d \in DOMAIN totals \ returned :
                       ZDefined(st, d) => ZAtLeast(st, dayOf(i), d)

\* C18's case: the anomalies table is returned for a table of more than five
\* days of different totals: five rows, none with |z| above 2.
C18_Witness ==
    /\ cleanedView # Null
    /\ chat # Null /\ chat[1].template = "anomalies"
    /\ Cardinality(DOMAIN ClaimedDailyTotals(Cleaned)) > 5
    /\ Len(chatTable[1]) = 5
    /\ \A i \in 1..5 :
          /\ chatTable[1][i].zscore # Null
          /\ ~AbsAbove2(chatTable[1][i].zscore)

\* C13: over every interleaving of handleFile, runAggregates and runChat the
\* UI permits, no replacement of the view "cleaned" or of the table "data" is
\* in flight while an aggregate or chat query of another operation is in flight
\* on the connection.
C13_NoReplacementDuringQueries ==
    \A replacement, query \in duck.inflight :
        ~ /\ replacement.kind \in {"view", "table"}
          /\ query.kind \in {"aggregate", "chat"}
          /\ replacement.owner # query.owner

\* A step of the runAggregates call that ends before the bundle is displayed:
\* the call starts, a statement of it settles with the next one sent, or the
\* call fails.
AggregatesStepBeforeDisplay ==
    /\ tasks'.runAggregates # tasks.runAggregates
    /\ tasks'.runAggregates[1].pc \in {"materializing", "querying"}
       \/ tasks'.runAggregates[1].outcome = "failed"

\* C14: when materializeCleanedView or one of the six aggregate queries of
\* runAggregates fails, the error is recorded and agg, aggView, lastRefreshed,
\* the cache entries and the history are as they were before the run: no step
\* of the run up to and including the failing one changes them.
C14_FailedRunChangesNothing ==
    [][AggregatesStepBeforeDisplay =>
          /\ ui'.agg = ui.agg
          /\ ui'.aggView = ui.aggView
          /\ ui'.lastRefreshed = ui.lastRefreshed
          /\ ui'.history = ui.history
          /\ storage' = storage
          /\ tasks'.runAggregates[1].outcome = "failed" =>
                 ui'.error # Null /\ ~ui'.aggLoading]_vars

\* A run failed at its third query or later while earlier aggregates are on
\* display.
C14_Witness ==
    /\ tasks.runAggregates # Null
    /\ tasks.runAggregates[1].outcome = "failed"
    /\ tasks.runAggregates[1].query >= 3
    /\ ui.aggView # Null
    /\ ui.error # Null

\* C15: when runChat is called with a non-empty question while aggView is null
\* or no connection exists, no query and no network request is issued and
\* chatError becomes non-null.
C15_InsufficientContextIsSignalled ==
    [][(/\ tasks'.events # tasks.events
        /\ tasks'.last[1].name = "runChat"
        /\ ~ui.conn \/ ui.aggView = Null)
          => /\ duck'.inflight = duck.inflight
             /\ \A slot \in Range(ChatCalls) :
                    tasks'[slot] # tasks[slot] => tasks'[slot][1].pc = "done"
             /\ ui'.chatError # Null]_vars

Deletes(hash) ==
    /\ tasks'.events # tasks.events
    /\ tasks'.last = Some([name |-> "deleteHistoryEntry", hash |-> Some(hash)])

\* The entries of a history list that are not of the hash, in their order.
OtherEntries(entries, hash) == SelectSeq(entries, LAMBDA entry : entry.hash # hash)

\* C20: deleteHistoryEntry(h) removes the cache entry and the history entry of
\* h, clears the last-session pointer if and only if it points to h, and leaves
\* the cache entries and the history entries of every other hash unchanged.
C20_DeleteRemovesOnlyThatHash ==
    [][\A h \in FileHashes :
          Deletes(h) =>
              /\ loadCache(storage', h) = Null
              /\ \A i \in 1..Len(storage'.history) : storage'.history[i].hash # h
              /\ \A i \in 1..Len(ui'.history) : ui'.history[i].hash # h
              /\ storage'.last = Null <=> storage.last \in {Null, Some(h)}
              /\ storage.last # Some(h) => storage'.last = storage.last
              /\ \A other \in FileHashes \ {h} :
                     loadCache(storage', other) = loadCache(storage, other)
              /\ storage'.history = OtherEntries(storage.history, h)
              /\ ui'.history = OtherEntries(ui.history, h)]_vars

\* The entry of one hash was deleted while another hash, the one of the last
\* session, keeps its cache entry and its history entry.
C20_Witness ==
    /\ tasks.last # Null
    /\ tasks.last[1].name = "deleteHistoryEntry"
    /\ loadCache(storage, tasks.last[1].hash[1]) = Null
    /\ storage.last # Null
    /\ loadCache(storage, storage.last[1]) # Null
    /\ Len(storage.history) = 1
    /\ storage.history[1].hash = storage.last[1]

\* The step in which runAggregates displays its bundle (and, with the LLM
\* disabled, persists it at once).
AggregatesDisplayed ==
    /\ At(tasks.runAggregates, "querying")
    /\ tasks'.runAggregates # tasks.runAggregates
    /\ tasks'.runAggregates[1].pc = "insights"
       \/ tasks'.runAggregates[1].outcome = "refreshed"

\* C22: whenever runAggregates displays or persists an aggregate bundle under
\* file hash h, the table "data" it queried was loaded from the file of hash h.
C22_AggregatesOfOwnFile ==
    [][AggregatesDisplayed =>
          /\ ui'.agg # Null
          /\ ui'.agg[1].table = tasks.runAggregates[1].fileHash]_vars

\* The step in which a handleFile call returns with a result shown (cache hit
\* or ingestion).
HandleFileShowsResult ==
    /\ tasks'.handleFile # tasks.handleFile
    /\ tasks'.handleFile[1].pc = "done"
    /\ tasks'.handleFile[1].outcome = "cache hit"
       \/ tasks'.handleFile[1].outcome = "ingested"

\* C23: after handleFile for a file of hash h, aggView is null or the bundle
\* computed or cached for h, never the bundle of the file selected before.
C23_AggViewOfSelectedFile ==
    [][HandleFileShowsResult =>
          \/ ui'.aggView = Null
          \/ ui'.aggView[1].result = tasks'.handleFile[1].hash]_vars

\* C24: every cache entry in localStorage contains an inference result.
C24_CacheEntriesHoldResult ==
    \A hash \in FileHashes :
        loadCache(storage, hash) # Null => loadCache(storage, hash)[1].result # Null

\* No two entries of the list have the same hash.
OneEntryPerHash(entries) ==
    \A i, j \in 1..Len(entries) : entries[i].hash = entries[j].hash => i = j

\* The list was changed without adding or removing an entry, and then only one
\* entry differs and the hashes keep their positions.
OnlyOneEntryUpdated(before, after) ==
    (Len(after) = Len(before) /\ after # before) =>
        /\ \A i \in 1..Len(before) : after[i].hash = before[i].hash
        /\ Cardinality({i \in 1..Len(before) : after[i] # before[i]}) = 1

\* C25: the history list, in the component and in localStorage, holds at most
\* one entry per file hash, and updating an existing hash changes only that
\* entry, keeps its position and leaves every other entry unchanged.
C25_OneHistoryEntryPerHash ==
    [][/\ OneEntryPerHash(ui.history) /\ OneEntryPerHash(ui'.history)
       /\ OneEntryPerHash(storage.history) /\ OneEntryPerHash(storage'.history)
       /\ OnlyOneEntryUpdated(ui.history, ui'.history)
       /\ OnlyOneEntryUpdated(storage.history, storage'.history)]_vars

\* The first of two entries was refreshed by a run of this visit, the second
\* is as the earlier visit left it.
C25_Witness ==
    /\ Len(ui.history) = 2
    /\ storage.history = ui.history
    /\ ui.history[1].lastRefreshed # Some(0)
    /\ ui.history[2].lastRefreshed = Some(0)
    /\ tasks.runAggregates # Null
    /\ tasks.runAggregates[1].outcome = "refreshed"

\* C28: at most one runChat is in flight: while chatLoading is true a further
\* send (button or Enter key) issues no query and no request.
C28_OneChatInFlight ==
    [][(/\ tasks'.events # tasks.events
        /\ tasks'.last[1].name = "runChat"
        /\ ui.chatLoading)
          => /\ duck'.inflight = duck.inflight
             /\ \A slot \in Range(ChatCalls) :
                    tasks'[slot] # tasks[slot] => tasks'[slot][1].pc = "done"]_vars

\* C29: the chat table of the top_products, channels and geo templates is
\* the first five rows of getProducts, getChannels and getGeo over the same
\* view, and holds no group whose key columns are all NULL.
C29_ChatTableIsFirstFiveOfAggregate ==
    (chat # Null /\ chatTable # Null /\ cleanedView # Null
        /\ chat[1].template \in DOMAIN ChatGroupKeys)
    => LET keys == ChatGroupKeys[chat[1].template]
           rows == chatTable[1]
       IN  /\ rows \in routeChatGroupsFiltered(Cleaned, keys)
           /\ \A i \in DOMAIN rows : \E k \in DOMAIN keys : rows[i].key[k] # Null

C26_FewDaysNoAnomalies ==
    (cleanedView # Null /\ Len(Daily(Cleaned)) < 6)
    => /\ getAnomalies(Cleaned) = {<<>>}
       /\ anomalies # Null => anomalies[1] = <<>>

\* getAnomalies has answered over five days of which one has ten times the
\* revenue of each of the others.
C26_Witness ==
    /\ cleanedView # Null
    /\ anomalies # Null
    /\ LET daily == Daily(Cleaned)
       IN  /\ Len(daily) = 5
           /\ \E n \in DOMAIN daily :
                 /\ daily[n].revenue = Some(10)
                 /\ \A m \in DOMAIN daily \ {n} : daily[m].revenue = Some(1)

\* C27: the raw column handleFile reads minDate and maxDate from is the
\* column buildColumnMap assigns to timestamp and the column the view casts
\* into ts, also when several columns are inferred to be timestamps.
C27_DateRangeColumnIsTsColumn ==
    (builtMap # Null /\ tsMapping(schemaColumns) # Null)
    => /\ tsMapping(schemaColumns) = Lookup(builtMap[1], "timestamp")
       /\ tsMapping(schemaColumns) = DateColumnOf(builtMap[1])

\* C30: when POST of the upload API route has answered, every connection it
\* opened is closed, on every path; and a request whose ingest timed out or
\* failed was answered with status 500 and a message.
C30_ConnectionsClosedBeforeResponse ==
    (post.pc = "idle" /\ post.response # Null)
    => /\ post.conn # "open"
       /\ post.open = 0
       /\ post.response[1].status = 500 => post.response[1].error # Null

====
